---- MODULE Spec2Model ----
(***************************************************************************)
(* Chunked GeoIP database loader, preload coordinator and IP resolver of   *)
(* nezha-dash (lib/geo/chunked-loader.ts, lib/geo/preload.ts,              *)
(* instrumentation.ts, lib/geo/ip-to-country.ts).                          *)
(*                                                                         *)
(* The module state of the three TypeScript modules is the state of the    *)
(* model.  A call runs synchronously up to its first await; what follows   *)
(* the await is a continuation that runs later, in any order relative to   *)
(* other pending continuations and to new calls.  loadGeoIPFromChunks has  *)
(* no await in its body, so a load is one atomic step of whoever calls it. *)
(***************************************************************************)
EXTENDS Integers, Sequences, FiniteSets, TLC

(* ---------------------------------------------------------------- bounds *)

\* number of call slots: calls that can be in flight at the same time
MaxCallers == 2

\* the longest database file of which every content is tried
MaxBlobLen == 5

\* the largest chunk size given to the splitter, in megabytes
MaxChunkMB == 2

\* how many passes over the chunk files one behaviour may start (a failing
\* load can be repeated without end, and so can a load after
\* clearChunkedCache()); it bounds the number of Readers constructed as well
MaxPasses == 2

\* the cache capacity the model runs with (the source's 10000, scaled down)
CacheBound == 2

(* ------------------------------------------------------------- constants *)

\* `null` of a Reader or Buffer reference; Readers are numbered from 1
NULL == 0

\* const MAX_CACHE_SIZE = 10000
MAX_CACHE_SIZE == CacheBound

\* a chunk file that does not exist (fs.existsSync(chunkPath) is false)
Absent == -1

\* a chunk file whose bytes are no gzip stream (gunzipSync throws)
BadGzip == -2

Callers == 1..MaxCallers

\* the chunk directory the application uses, and another one a direct
\* caller of loadGeoIPFromChunks may pass
ChunksDir == "chunks"

AltDir == "alt"

Dirs == {ChunksDir, AltDir}

\* process.env.NEXT_RUNTIME
Runtimes == {"nodejs", "edge"}

\* the ip arguments of the model.  "bad" is no IP address: Reader.get throws
\* on it.  "1.1.1.1" has only a registered_country in the MaxMind data and an
\* empty country in the IPInfo data, "203.0.113.1" is in no database.
InputIPs == {"", "::", "8.8.8.8", "1.1.1.1", "203.0.113.1", "bad"}

ParsableIPs == {"8.8.8.8", "1.1.1.1", "203.0.113.1"}

(* ----------------------------------------------------------- on-disk data *)

\* A chunk directory: whether metadata.json exists, the manifest's fields the
\* loader reads, per chunk the decompressed length of its file (or Absent,
\* BadGzip), and whether the reassembled bytes are a database Reader accepts.
ChunkDirValid ==
    [manifest |-> TRUE, totalSize |-> 3, numChunks |-> 2,
     chunks |-> <<2, 1>>, files |-> <<2, 1>>, validDb |-> TRUE]

ChunkDirNoManifest ==
    [manifest |-> FALSE, totalSize |-> 0, numChunks |-> 0,
     chunks |-> <<>>, files |-> <<>>, validDb |-> FALSE]

ChunkDirMissingChunk ==
    [ChunkDirValid EXCEPT !.files = <<2, Absent>>]

ChunkDirSizeMismatch ==
    [ChunkDirValid EXCEPT !.files = <<2, 2>>]

ChunkDirBadDb ==
    [ChunkDirValid EXCEPT !.validDb = FALSE]

ChunkDirConfigs ==
    {ChunkDirValid, ChunkDirNoManifest, ChunkDirMissingChunk,
     ChunkDirSizeMismatch, ChunkDirBadDb}

\* the monolithic database files that may lie in lib/maxmind-db
MonoConfigs ==
    {{}, {"country.mmdb"}, {"ipinfo_lite.mmdb", "GeoLite2-City.mmdb"}, {"GeoLite2-City.mmdb"}}

\* The assets on disk.  The regular files are looked at only when there is no
\* manifest (detectDatabaseType), so they are left out where there is one.
DiskConfigs ==
    {d \in [chunks : ChunkDirConfigs, mono : MonoConfigs] :
        d.chunks.manifest => d.mono = {}}

\* every state of a two-chunk directory: the manifest there or not, each
\* chunk file missing, no gzip stream, or of either length, the bytes a
\* database or not
LoaderDirs ==
    {[manifest |-> m, totalSize |-> 3, numChunks |-> 2, chunks |-> <<2, 1>>,
      files |-> <<a, b>>, validDb |-> v] :
        m \in BOOLEAN, a \in {Absent, BadGzip, 1, 2}, b \in {Absent, BadGzip, 1, 2},
        v \in BOOLEAN}

\* the regular database files detectDatabaseType knows
MonoFiles == {"country.mmdb", "ipinfo_lite.mmdb", "GeoLite2-City.mmdb"}

\* every combination of assets the selector can find: a chunk directory in
\* each of its states, with any of the regular files beside it
SelectorDisks == [chunks : ChunkDirConfigs, mono : SUBSET MonoFiles]

\* the other directory holds a valid one-chunk database
AltDirConfig ==
    [manifest |-> TRUE, totalSize |-> 1, numChunks |-> 1,
     chunks |-> <<1>>, files |-> <<1>>, validDb |-> TRUE]

(* ------------------------------------------------------------------ state *)

VARIABLES
    disk,            \* the database assets on disk
    cachedReader,    \* chunked-loader.ts: let cachedReader
    cachedBuffer,    \* chunked-loader.ts: let cachedBuffer (the Reader whose buffer it is)
    isPreloaded,     \* preload.ts: let isPreloaded
    preloadPromise,  \* preload.ts: let preloadPromise
    geoIPReader,     \* ip-to-country.ts: let geoIPReader
    databaseType,    \* ip-to-country.ts: let databaseType
    isInitializing,  \* ip-to-country.ts: let isInitializing
    initPromise,     \* ip-to-country.ts: let initPromise
    ipCountryCache,  \* ip-to-country.ts: const ipCountryCache, in insertion order
    readers,         \* every Reader constructed so far; a Reader's number is its index
    calls,           \* per call slot: the call in flight there, suspended at an await
    last,            \* the outcome of the call that returned or settled most recently
    passes           \* instrumentation: passes over the chunk files started so far

vars ==
    <<disk, cachedReader, cachedBuffer, isPreloaded, preloadPromise, geoIPReader,
      databaseType, isInitializing, initPromise, ipCountryCache, readers, calls,
      last, passes>>

loaderVars == <<cachedReader, cachedBuffer>>

preloadVars == <<isPreloaded, preloadPromise>>

resolverVars == <<geoIPReader, databaseType, isInitializing, initPromise>>

\* A value a call returns, a promise settles with, or a continuation awaits.
\* kind: "none" (null / nothing yet), "void", "reader" (id), "code" (str),
\* "null", "error" (str), "pending" (id = the slot whose continuation settles it)
Res(kind, id, str) == [kind |-> kind, id |-> id, str |-> str]

None == Res("none", NULL, "")

Void == Res("void", NULL, "")

\* null returned by a resolve call; str names the error the call swallowed
Null == Res("null", NULL, "")

\* a catch that hands the error on to the caller
Rethrow(e) == Res("error", NULL, e)

NullBy(e) == Res("null", NULL, e)

ReaderRes(r) == Res("reader", r, "")

CodeRes(code) == IF code = "" THEN Null ELSE Res("code", NULL, code)

Err(e) == Res("error", NULL, e)

\* the failure of the chunk loop at chunk i (counted from 0): the message of
\* the Error names the chunk, by its path or by its index
ErrAt(e, i) == Res("error", i, e)

Pending(c) == Res("pending", c, "")

\* a free call slot
IdleCall == [pc |-> "idle", arg |-> "", aw |-> None]

\* the outcome of the call that finished most recently: what the caller
\* received (ret), and whether the step that finished it touched the disk (io)
NoCall == [ret |-> None, io |-> FALSE]

\* a new call takes the first free slot (slots are interchangeable)
Free(c) ==
    /\ calls[c].pc = "idle"
    /\ \A d \in 1..(c - 1) : calls[d].pc # "idle"

Dir(chunksDir) == IF chunksDir = ChunksDir THEN disk.chunks ELSE AltDirConfig

(* ------------------------------------------------- chunked-loader.ts *)

\* a loop that does not compare a chunk's length with the manifest
RECURSIVE LoadLoopUnverified(_, _, _)
LoadLoopUnverified(dir, i, offset) ==
    IF i >= dir.numChunks
    THEN [err |-> "", at |-> i, offset |-> offset]
    ELSE IF dir.files[i + 1] = Absent
    THEN [err |-> "chunk_not_found", at |-> i, offset |-> offset]
    ELSE LoadLoopUnverified(dir, i + 1, offset + dir.files[i + 1])

\* a loop that reads a chunk file without checking that it exists first
RECURSIVE LoadLoopNoExistsCheck(_, _, _)
LoadLoopNoExistsCheck(dir, i, offset) ==
    IF i >= dir.numChunks
    THEN [err |-> "", at |-> i, offset |-> offset]
    ELSE IF dir.files[i + 1] = Absent
    THEN [err |-> "read_error", at |-> i, offset |-> offset]
    ELSE IF dir.files[i + 1] = BadGzip
    THEN [err |-> "gunzip_error", at |-> i, offset |-> offset]
    ELSE IF dir.files[i + 1] # dir.chunks[i + 1]
    THEN [err |-> "size_mismatch", at |-> i, offset |-> offset]
    ELSE LoadLoopNoExistsCheck(dir, i + 1, offset + dir.files[i + 1])

\* The for loop of loadGeoIPFromChunks from chunk i on, with the running
\* offset: the error that ends it ("" when every chunk was consumed), the
\* position it stopped at and the final offset.
RECURSIVE LoadLoop(_, _, _)
LoadLoop(dir, i, offset) ==
    IF i >= dir.numChunks
    THEN [err |-> "", at |-> i, offset |-> offset]
    ELSE IF i + 1 > Len(dir.chunks)
    THEN [err |-> "type_error", at |-> i, offset |-> offset]
    ELSE IF dir.files[i + 1] = Absent
    THEN [err |-> "chunk_not_found", at |-> i, offset |-> offset]
    ELSE IF dir.files[i + 1] = BadGzip
    THEN [err |-> "gunzip_error", at |-> i, offset |-> offset]
    ELSE IF dir.files[i + 1] # dir.chunks[i + 1]
    THEN [err |-> "size_mismatch", at |-> i, offset |-> offset]
    ELSE LoadLoop(dir, i + 1, offset + dir.files[i + 1])

\* new Reader(buffer): the Reader record the heap gets
NewReader(src, fmt, size, filled) ==
    [src |-> src, fmt |-> fmt, size |-> size, filled |-> filled]

\* hasChunkedDatabase(chunksDir)
hasChunkedDatabase(chunksDir) == Dir(chunksDir).manifest

\* The body of loadGeoIPFromChunks(chunksDir), with `cached` the value it reads
\* from cachedReader: what the returned promise settles with (res), the
\* loader's variables and the heap afterwards, whether the call touched the
\* disk (io) and whether it started a pass over the chunk files (pass).
LoadChunks(cached, chunksDir) ==
    LET same == [res |-> None, reader |-> cachedReader, buffer |-> cachedBuffer,
                 heap |-> readers, io |-> TRUE, pass |-> FALSE]
        dir == Dir(chunksDir)
        loop == LoadLoop(dir, 0, 0)
        id == Len(readers) + 1
    IN  IF cached # NULL
        THEN [same EXCEPT !.res = ReaderRes(cached), !.io = FALSE]
        ELSE IF ~dir.manifest
        THEN [same EXCEPT !.res = Err("metadata_not_found")]
        ELSE IF loop.err # ""
        THEN [same EXCEPT !.res = ErrAt(loop.err, loop.at), !.pass = TRUE]
        ELSE IF ~dir.validDb
        THEN [same EXCEPT !.res = Err("invalid_db"), !.pass = TRUE]
        ELSE [res |-> ReaderRes(id), reader |-> id, buffer |-> id,
              heap |-> Append(readers, NewReader(chunksDir, "maxmind", dir.totalSize, loop.offset)),
              io |-> TRUE, pass |-> TRUE]

\* a load that does not look at cachedReader first
LoadWithoutCache(chunksDir) == LoadChunks(NULL, chunksDir)

\* a load that remembers that a pass failed and fails from then on without
\* looking at the disk
LoadStickyFailure(chunksDir) ==
    IF cachedReader = NULL /\ passes > Len(readers)
    THEN [res |-> Err("earlier_failure"), reader |-> cachedReader,
          buffer |-> cachedBuffer, heap |-> readers, io |-> FALSE, pass |-> FALSE]
    ELSE LoadChunks(cachedReader, chunksDir)

\* loadGeoIPFromChunks(chunksDir), run in the current state
loadGeoIPFromChunks(chunksDir) == LoadChunks(cachedReader, chunksDir)

\* the loader's variables, the heap and the pass counter after a load
ApplyLoad(l) ==
    /\ cachedReader' = l.reader
    /\ cachedBuffer' = l.buffer
    /\ readers' = l.heap
    /\ passes' = IF l.pass THEN passes + 1 ELSE passes

\* a load the bounds of the model leave room for
LoadInBounds(l) == l.pass => passes < MaxPasses

\* the outcome of a finished call
Finished(ret, io) == [ret |-> ret, io |-> io]

\* the record of a call suspended at an await: where (pc), its argument and
\* what it awaits (aw)
Suspended(pc, arg, aw) == [pc |-> pc, arg |-> arg, aw |-> aw]

\* a direct call loadGeoIPFromChunks(chunksDir), as the test script makes it:
\* the body has no await, the promise is settled when the call returns
DirectLoad(chunksDir) ==
    LET l == loadGeoIPFromChunks(chunksDir)
    IN  /\ LoadInBounds(l)
        /\ ApplyLoad(l)
        /\ last' = Finished(l.res, l.io)
        /\ UNCHANGED <<disk, preloadVars, resolverVars, ipCountryCache, calls>>

\* clearChunkedCache()
clearChunkedCache ==
    /\ cachedReader' = NULL
    /\ cachedBuffer' = NULL
    /\ UNCHANGED <<disk, preloadVars, resolverVars, ipCountryCache, readers, calls,
                   last, passes>>

\* the environment replaces the database assets on disk
DiskChange ==
    /\ disk' \in DiskConfigs
    /\ disk' # disk
    /\ UNCHANGED <<loaderVars, preloadVars, resolverVars, ipCountryCache, readers,
                   calls, last, passes>>

(* ----------------------------------------- preload.ts, instrumentation.ts *)

\* The body of preloadGeoIPDatabase(), with slot c to suspend in and `inFlight`
\* the value it reads from preloadPromise: up to the await of the load, or to
\* its return
PreloadBody(c, inFlight) ==
    LET l == loadGeoIPFromChunks(ChunksDir)
    IN  IF isPreloaded
        THEN /\ last' = Finished(Void, FALSE)
             /\ UNCHANGED <<disk, loaderVars, preloadVars, resolverVars,
                            ipCountryCache, readers, calls, passes>>
        ELSE IF inFlight # None
        THEN \* return preloadPromise: the caller gets what that promise settles with
             /\ IF inFlight.kind = "pending"
                THEN /\ calls' = [calls EXCEPT ![c] =
                           Suspended("preload_wait", "", inFlight)]
                     /\ UNCHANGED last
                ELSE /\ last' = Finished(inFlight, FALSE)
                     /\ UNCHANGED calls
             /\ UNCHANGED <<disk, loaderVars, preloadVars, resolverVars,
                            ipCountryCache, readers, passes>>
        ELSE IF hasChunkedDatabase(ChunksDir)
        THEN \* the async block runs the load and suspends at the await
             /\ LoadInBounds(l)
             /\ ApplyLoad(l)
             /\ preloadPromise' = Pending(c)
             /\ calls' = [calls EXCEPT ![c] =
                   Suspended("preload_await", "", l.res)]
             /\ UNCHANGED <<disk, isPreloaded, resolverVars, ipCountryCache, last>>
        ELSE \* the async block ends without suspending: its finally sets
             \* preloadPromise to null, then the assignment stores its promise
             /\ preloadPromise' = Void
             /\ last' = Finished(Void, TRUE)
             /\ UNCHANGED <<disk, loaderVars, isPreloaded, resolverVars,
                            ipCountryCache, readers, calls, passes>>

\* a preload that does not look at preloadPromise first
PreloadWithoutGuard(c) == PreloadBody(c, None)

\* preloadGeoIPDatabase(), run in the current state
preloadGeoIPDatabase(c) == PreloadBody(c, preloadPromise)

\* a call of preloadGeoIPDatabase()
PreloadCall(c) ==
    /\ Free(c)
    /\ preloadGeoIPDatabase(c)

\* register() with process.env.NEXT_RUNTIME = runtime
register(c, runtime) ==
    /\ Free(c)
    /\ IF runtime = "nodejs"
       THEN preloadGeoIPDatabase(c)
       ELSE /\ last' = Finished(Void, FALSE)
            /\ UNCHANGED <<disk, loaderVars, preloadVars, resolverVars,
                           ipCountryCache, readers, calls, passes>>

\* a preload whose catch rethrows
PreloadRethrows(loaded) == IF loaded.kind = "error" THEN loaded ELSE Void

\* what the promise of the async block of preloadGeoIPDatabase settles with,
\* given what the awaited load settled with: the catch swallows a failure
PreloadOutcome(loaded) == Void

\* the continuation of the async block of preloadGeoIPDatabase in slot c, after
\* the awaited load has settled: try / catch / finally; every caller that was
\* handed this promise is settled with it
PreloadResume(c) ==
    LET loaded == calls[c].aw
    IN  /\ calls[c].pc = "preload_await"
        /\ isPreloaded' = IF loaded.kind = "reader" THEN TRUE ELSE isPreloaded
        /\ preloadPromise' = None
        /\ calls' = [d \in Callers |->
              IF d = c \/ (calls[d].pc = "preload_wait" /\ calls[d].aw = Pending(c))
              THEN IdleCall
              ELSE calls[d]]
        /\ last' = Finished(PreloadOutcome(loaded), FALSE)
        /\ UNCHANGED <<disk, loaderVars, resolverVars, ipCountryCache, readers, passes>>

(* ------------------------------------------------------ ip-to-country.ts *)

\* a selector that looks for the MaxMind file before the IPInfo files
DetectMaxmindFirst ==
    IF hasChunkedDatabase(ChunksDir)
    THEN [found |-> TRUE, path |-> ChunksDir, type |-> "maxmind", chunked |-> TRUE]
    ELSE IF "GeoLite2-City.mmdb" \in disk.mono
    THEN [found |-> TRUE, path |-> "GeoLite2-City.mmdb", type |-> "maxmind", chunked |-> FALSE]
    ELSE IF "country.mmdb" \in disk.mono
    THEN [found |-> TRUE, path |-> "country.mmdb", type |-> "ipinfo", chunked |-> FALSE]
    ELSE IF "ipinfo_lite.mmdb" \in disk.mono
    THEN [found |-> TRUE, path |-> "ipinfo_lite.mmdb", type |-> "ipinfo", chunked |-> FALSE]
    ELSE [found |-> FALSE, path |-> "", type |-> "maxmind", chunked |-> FALSE]

\* detectDatabaseType(): found is FALSE where the code throws
detectDatabaseType ==
    IF hasChunkedDatabase(ChunksDir)
    THEN [found |-> TRUE, path |-> ChunksDir, type |-> "maxmind", chunked |-> TRUE]
    ELSE IF "country.mmdb" \in disk.mono
    THEN [found |-> TRUE, path |-> "country.mmdb", type |-> "ipinfo", chunked |-> FALSE]
    ELSE IF "ipinfo_lite.mmdb" \in disk.mono
    THEN [found |-> TRUE, path |-> "ipinfo_lite.mmdb", type |-> "ipinfo", chunked |-> FALSE]
    ELSE IF "GeoLite2-City.mmdb" \in disk.mono
    THEN [found |-> TRUE, path |-> "GeoLite2-City.mmdb", type |-> "maxmind", chunked |-> FALSE]
    ELSE [found |-> FALSE, path |-> "", type |-> "maxmind", chunked |-> FALSE]

\* Reader.get(ip) of the third-party library on the data of Reader r: throws
\* on a string that is no IP address, else the raw record or null (found FALSE).
\* MaxMind records nest the code (iso, reg), IPInfo records hold it in country.
Lookup(r, ip) ==
    LET rec(found, country, iso, reg) ==
            [throws |-> FALSE, found |-> found, country |-> country, iso |-> iso, reg |-> reg]
    IN  IF ip \notin ParsableIPs
        THEN [throws |-> TRUE, found |-> FALSE, country |-> "", iso |-> "", reg |-> ""]
        ELSE IF r.fmt = "ipinfo"
        THEN CASE ip = "8.8.8.8" -> rec(TRUE, "US", "", "")
               [] ip = "1.1.1.1" -> rec(TRUE, "", "", "")
               [] OTHER -> rec(FALSE, "", "", "")
        ELSE CASE ip = "8.8.8.8" -> rec(TRUE, "[object]", "US", "US")
               [] ip = "1.1.1.1" -> rec(TRUE, "", "", "AU")
               [] OTHER -> rec(FALSE, "", "", "")

\* extractCountryCode(result) under database type dbType; "" is null
extractCountryCode(result, dbType) ==
    IF ~result.found
    THEN ""
    ELSE IF dbType = "ipinfo"
    THEN result.country
    ELSE IF result.iso # ""
    THEN result.iso
    ELSE IF result.reg # ""
    THEN result.reg
    ELSE ""

\* a validation that lets the unspecified IPv6 address through
IsEmptyOnly(ip) == ip = ""

\* !ip || ip === "" || ip === "::"
IsBlankIP(ip) == ip = "" \/ ip = "::"

CacheKeys(cache) == {cache[i].key : i \in 1..Len(cache)}

\* a cache check that never hits
CacheNeverHas(cache, ip) == FALSE

\* ipCountryCache.has(ip)
CacheHas(cache, ip) == ip \in CacheKeys(cache)

\* ipCountryCache.get(ip)
CacheGet(cache, ip) == cache[CHOOSE i \in 1..Len(cache) : cache[i].key = ip].val

\* a read that moves the entry it hits to the newest place, as an LRU does
GetRefreshes(cache, ip) ==
    LET i == CHOOSE j \in 1..Len(cache) : cache[j].key = ip
    IN  Append(SubSeq(cache, 1, i - 1) \o SubSeq(cache, i + 1, Len(cache)), cache[i])

\* the map after ipCountryCache.has(ip) and ipCountryCache.get(ip) on a key it
\* holds: a read of a Map leaves its entries and their order as they are
OrderAfterGet(cache, ip) == cache

\* a store that adds an entry on every write, as a list does
MapSetAppends(cache, ip, code) == Append(cache, [key |-> ip, val |-> code])

\* Map.set(ip, code): an existing key keeps its place, a new one goes last
MapSet(cache, ip, code) ==
    IF CacheHas(cache, ip)
    THEN [i \in 1..Len(cache) |->
            IF cache[i].key = ip THEN [key |-> ip, val |-> code] ELSE cache[i]]
    ELSE Append(cache, [key |-> ip, val |-> code])

\* an eviction that starts one entry too late
EvictAboveCapacity(cache) ==
    IF Len(cache) > MAX_CACHE_SIZE THEN Tail(cache) ELSE cache

\* an eviction that deletes the newest entry
EvictNewest(cache) ==
    IF Len(cache) >= MAX_CACHE_SIZE /\ Len(cache) > 0
    THEN SubSeq(cache, 1, Len(cache) - 1)
    ELSE cache

\* an eviction that does not look at the size of the map
EvictAlways(cache) ==
    IF Len(cache) > 0 /\ cache[1].key # "" THEN Tail(cache) ELSE cache

\* the eviction step of both resolve functions: at capacity, delete the
\* first key of the map if it is truthy
EvictOldest(cache) ==
    IF Len(cache) >= MAX_CACHE_SIZE /\ Len(cache) > 0 /\ cache[1].key # ""
    THEN Tail(cache)
    ELSE cache

\* evict if at capacity, then ipCountryCache.set(ip, countryCode)
CachePut(cache, ip, code) == MapSet(EvictOldest(cache), ip, code)

\* a resolve that stores only the codes it found
LookupAndCacheFoundOnly(heap, r, ip, dbType) ==
    LET raw == Lookup(heap[r], ip)
        code == extractCountryCode(raw, dbType)
    IN  IF raw.throws
        THEN [cache |-> ipCountryCache, ret |-> NullBy("lookup_error")]
        ELSE IF code = ""
        THEN [cache |-> ipCountryCache, ret |-> Null]
        ELSE [cache |-> CachePut(ipCountryCache, ip, code), ret |-> CodeRes(code)]

\* a resolve call that also stores a null for an ip whose lookup threw
LookupAndCacheMemoizesThrow(heap, r, ip, dbType) ==
    LET raw == Lookup(heap[r], ip)
        code == extractCountryCode(raw, dbType)
    IN  IF raw.throws
        THEN [cache |-> CachePut(ipCountryCache, ip, ""), ret |-> NullBy("lookup_error")]
        ELSE [cache |-> CachePut(ipCountryCache, ip, code), ret |-> CodeRes(code)]

\* what a resolve call does with the Reader r of the heap it obtained, under
\* database type dbType: the cache afterwards and the value returned
LookupAndCache(heap, r, ip, dbType) ==
    LET raw == Lookup(heap[r], ip)
        code == extractCountryCode(raw, dbType)
    IN  IF raw.throws
        THEN [cache |-> ipCountryCache, ret |-> NullBy("lookup_error")]
        ELSE [cache |-> CachePut(ipCountryCache, ip, code), ret |-> CodeRes(code)]

\* a guard that never finds an initialisation in flight
InitNeverInFlight == FALSE

\* a guard that hands out whatever promise is stored, settled or not
InitPromiseStored == initPromise # None

\* if (isInitializing && initPromise): an initialisation is in flight
InitInFlight == isInitializing /\ initPromise # None

\* initGeoIPReaderAsync() called inside getCountryCodeFromIPAsync(ip), with
\* slot c to suspend in: up to the first suspension; the caller then awaits
\* the promise it returns
initGeoIPReaderAsync(c, ip) ==
    LET d == detectDatabaseType
        l == loadGeoIPFromChunks(d.path)
        id == Len(readers) + 1
    IN  IF geoIPReader # NULL
        THEN /\ calls' = [calls EXCEPT ![c] =
                   Suspended("resolve_await", ip, ReaderRes(geoIPReader))]
             /\ UNCHANGED <<loaderVars, resolverVars, readers, passes>>
        ELSE IF InitInFlight
        THEN /\ calls' = [calls EXCEPT ![c] =
                   Suspended("resolve_await", ip, initPromise)]
             /\ UNCHANGED <<loaderVars, resolverVars, readers, passes>>
        ELSE IF ~d.found
        THEN \* detectDatabaseType throws: the catch resets isInitializing and
             \* initPromise, then the assignment stores the rejected promise
             /\ isInitializing' = FALSE
             /\ initPromise' = Err("no_database")
             /\ calls' = [calls EXCEPT ![c] =
                   Suspended("resolve_await", ip, Err("no_database"))]
             /\ UNCHANGED <<loaderVars, geoIPReader, databaseType, readers, passes>>
        ELSE IF d.chunked
        THEN \* the async block runs the load and suspends at the await
             /\ LoadInBounds(l)
             /\ ApplyLoad(l)
             /\ isInitializing' = TRUE
             /\ initPromise' = Pending(c)
             /\ calls' = [calls EXCEPT ![c] =
                   Suspended("init_await", ip, l.res)]
             /\ UNCHANGED <<geoIPReader, databaseType>>
        ELSE \* a regular file: read, construct, return without suspending
             /\ readers' = Append(readers, NewReader(d.path, d.type, 1, 1))
             /\ geoIPReader' = id
             /\ databaseType' = d.type
             /\ isInitializing' = FALSE
             /\ initPromise' = ReaderRes(id)
             /\ calls' = [calls EXCEPT ![c] =
                   Suspended("resolve_await", ip, ReaderRes(id))]
             /\ UNCHANGED <<loaderVars, passes>>

\* getCountryCodeFromIPAsync(ip), with slot c to suspend in: up to the await
\* of initGeoIPReaderAsync(), or to its return
getCountryCodeFromIPAsync(c, ip) ==
    /\ Free(c)
    /\ IF IsBlankIP(ip)
       THEN /\ last' = Finished(Null, FALSE)
            /\ UNCHANGED <<loaderVars, resolverVars, ipCountryCache, readers, calls,
                           passes>>
       ELSE IF CacheHas(ipCountryCache, ip)
       THEN /\ last' = Finished(CodeRes(CacheGet(ipCountryCache, ip)), FALSE)
            /\ ipCountryCache' = OrderAfterGet(ipCountryCache, ip)
            /\ UNCHANGED <<loaderVars, resolverVars, readers, calls, passes>>
       ELSE /\ initGeoIPReaderAsync(c, ip)
            /\ UNCHANGED <<ipCountryCache, last>>
    /\ UNCHANGED <<disk, preloadVars>>

\* a continuation that resumes the call that started the initialisation and
\* leaves those that were handed its promise waiting
InitResumeOwnerOnly(c) ==
    LET loaded == calls[c].aw
    IN  /\ calls[c].pc = "init_await"
        /\ IF loaded.kind = "reader"
           THEN /\ geoIPReader' = loaded.id
                /\ databaseType' = "maxmind"
                /\ isInitializing' = FALSE
                /\ initPromise' = IF initPromise = Pending(c) THEN loaded ELSE initPromise
           ELSE /\ isInitializing' = FALSE
                /\ initPromise' = None
                /\ UNCHANGED <<geoIPReader, databaseType>>
        /\ calls' = [calls EXCEPT ![c] = [@ EXCEPT !.pc = "resolve_await", !.aw = loaded]]
        /\ UNCHANGED <<disk, loaderVars, preloadVars, ipCountryCache, readers, last, passes>>

\* the continuation of the async block of initGeoIPReaderAsync in slot c, after
\* the awaited load has settled; it settles initPromise, which slot c and
\* every caller that was handed it are awaiting
InitResume(c) ==
    LET loaded == calls[c].aw
    IN  /\ calls[c].pc = "init_await"
        /\ IF loaded.kind = "reader"
           THEN /\ geoIPReader' = loaded.id
                /\ databaseType' = "maxmind"
                /\ isInitializing' = FALSE
                /\ initPromise' = IF initPromise = Pending(c) THEN loaded ELSE initPromise
           ELSE /\ isInitializing' = FALSE
                /\ initPromise' = None
                /\ UNCHANGED <<geoIPReader, databaseType>>
        /\ calls' = [d \in Callers |->
              IF d = c \/ (calls[d].pc = "resolve_await" /\ calls[d].aw = Pending(c))
              THEN [calls[d] EXCEPT !.pc = "resolve_await", !.aw = loaded]
              ELSE calls[d]]
        /\ UNCHANGED <<disk, loaderVars, preloadVars, ipCountryCache, readers, last, passes>>

\* a continuation that stores its result without the eviction step
ResolveResumeNoEviction(c) ==
    LET got == calls[c].aw
        ip == calls[c].arg
        raw == Lookup(readers[got.id], ip)
        code == extractCountryCode(raw, databaseType)
    IN  /\ calls[c].pc = "resolve_await"
        /\ got.kind # "pending"
        /\ IF got.kind = "error"
           THEN /\ last' = Finished(NullBy(got.str), FALSE)
                /\ UNCHANGED ipCountryCache
           ELSE IF raw.throws
           THEN /\ last' = Finished(NullBy("lookup_error"), FALSE)
                /\ UNCHANGED ipCountryCache
           ELSE /\ last' = Finished(CodeRes(code), FALSE)
                /\ ipCountryCache' = MapSet(ipCountryCache, ip, code)
        /\ calls' = [calls EXCEPT ![c] = IdleCall]
        /\ UNCHANGED <<disk, loaderVars, preloadVars, resolverVars, readers, passes>>

\* the continuation of getCountryCodeFromIPAsync(ip) in slot c, after the
\* promise of initGeoIPReaderAsync() has settled
ResolveResume(c) ==
    LET got == calls[c].aw
        ip == calls[c].arg
        out == LookupAndCache(readers, got.id, ip, databaseType)
    IN  /\ calls[c].pc = "resolve_await"
        /\ got.kind # "pending"
        /\ IF got.kind = "error"
           THEN /\ last' = Finished(NullBy(got.str), FALSE)
                /\ UNCHANGED ipCountryCache
           ELSE /\ last' = Finished(out.ret, FALSE)
                /\ ipCountryCache' = out.cache
        /\ calls' = [calls EXCEPT ![c] = IdleCall]
        /\ UNCHANGED <<disk, loaderVars, preloadVars, resolverVars, readers, passes>>

\* an initGeoIPReader that takes the Reader the loader has cached
InitReaderFromLoader ==
    LET d == detectDatabaseType
        id == Len(readers) + 1
        same == [reader |-> geoIPReader, err |-> "", geo |-> geoIPReader,
                 type |-> databaseType, heap |-> readers, io |-> TRUE]
    IN  IF geoIPReader # NULL
        THEN [same EXCEPT !.io = FALSE]
        ELSE IF ~d.found
        THEN [same EXCEPT !.err = "no_database"]
        ELSE IF d.chunked /\ cachedReader # NULL
        THEN [same EXCEPT !.reader = cachedReader, !.geo = cachedReader, !.type = d.type]
        ELSE IF d.chunked
        THEN [same EXCEPT !.err = "not_preloaded"]
        ELSE [reader |-> id, err |-> "", geo |-> id, type |-> d.type,
              heap |-> Append(readers, NewReader(d.path, d.type, 1, 1)), io |-> TRUE]

\* a blocking initialisation without the early return on a held Reader: it
\* selects and reads the database on every call
InitReaderNoReuse ==
    LET d == detectDatabaseType
        id == Len(readers) + 1
        same == [reader |-> geoIPReader, err |-> "", geo |-> geoIPReader,
                 type |-> databaseType, heap |-> readers, io |-> TRUE]
    IN  IF ~d.found
        THEN [same EXCEPT !.err = "no_database"]
        ELSE IF d.chunked
        THEN [same EXCEPT !.err = "not_preloaded"]
        ELSE [reader |-> id, err |-> "", geo |-> id, type |-> d.type,
              heap |-> Append(readers, NewReader(d.path, d.type, 1, 1)), io |-> TRUE]

\* initGeoIPReader() in the current state: the Reader it returns (NULL where it
\* throws, with the error), and the resolver's variables and the heap afterwards
initGeoIPReader ==
    LET d == detectDatabaseType
        id == Len(readers) + 1
        same == [reader |-> geoIPReader, err |-> "", geo |-> geoIPReader,
                 type |-> databaseType, heap |-> readers, io |-> TRUE]
    IN  IF geoIPReader # NULL
        THEN [same EXCEPT !.io = FALSE]
        ELSE IF ~d.found
        THEN [same EXCEPT !.err = "no_database"]
        ELSE IF d.chunked
        THEN [same EXCEPT !.err = "not_preloaded"]
        ELSE [reader |-> id, err |-> "", geo |-> id, type |-> d.type,
              heap |-> Append(readers, NewReader(d.path, d.type, 1, 1)), io |-> TRUE]

\* getCountryCodeFromIP(ip): it runs to its return
getCountryCodeFromIP(ip) ==
    LET init == initGeoIPReader
        out == LookupAndCache(init.heap, init.reader, ip, init.type)
    IN  /\ IF IsBlankIP(ip)
           THEN /\ last' = Finished(Null, FALSE)
                /\ UNCHANGED <<geoIPReader, databaseType, readers, ipCountryCache>>
           ELSE IF CacheHas(ipCountryCache, ip)
           THEN /\ last' = Finished(CodeRes(CacheGet(ipCountryCache, ip)), FALSE)
                /\ ipCountryCache' = OrderAfterGet(ipCountryCache, ip)
                /\ UNCHANGED <<geoIPReader, databaseType, readers>>
           ELSE IF init.err # ""
           THEN /\ last' = Finished(NullBy(init.err), init.io)
                /\ UNCHANGED <<geoIPReader, databaseType, readers, ipCountryCache>>
           ELSE /\ geoIPReader' = init.geo
                /\ databaseType' = init.type
                /\ readers' = init.heap
                /\ ipCountryCache' = out.cache
                /\ last' = Finished(out.ret, init.io)
        /\ UNCHANGED <<disk, loaderVars, preloadVars, isInitializing, initPromise,
                       calls, passes>>

\* what the blocking form works on: the Reader held, its format, the heap of
\* Readers and the cache
BlockingState ==
    [geo |-> geoIPReader, type |-> databaseType, heap |-> readers,
     cache |-> ipCountryCache]

\* getCountryCodeFromIP(ip) run on st: what it returns, whether it touched
\* the disk, and what it leaves of st
ResolveIn(st, ip) ==
    LET d == detectDatabaseType
        id == Len(st.heap) + 1
        stay(ret, io) == [st |-> st, ret |-> ret, io |-> io]
        built == IF st.geo # NULL
                 THEN st
                 ELSE [st EXCEPT !.geo = id, !.type = d.type,
                                 !.heap = Append(st.heap, NewReader(d.path, d.type, 1, 1))]
        raw == Lookup(built.heap[built.geo], ip)
        code == extractCountryCode(raw, built.type)
    IN  IF IsBlankIP(ip)
        THEN stay(Null, FALSE)
        ELSE IF CacheHas(st.cache, ip)
        THEN stay(CodeRes(CacheGet(st.cache, ip)), FALSE)
        ELSE IF st.geo = NULL /\ ~d.found
        THEN stay(NullBy("no_database"), TRUE)
        ELSE IF st.geo = NULL /\ d.chunked
        THEN stay(NullBy("not_preloaded"), TRUE)
        ELSE IF raw.throws
        THEN [st |-> built, ret |-> NullBy("lookup_error"), io |-> st.geo = NULL]
        ELSE [st |-> [built EXCEPT !.cache = CachePut(built.cache, ip, code)],
              ret |-> CodeRes(code), io |-> st.geo = NULL]

\* a fallback that is tried whatever the first address gave
TryV6Always(hit, ipv6) == ipv6 # "" /\ ipv6 # "::"

\* the second block is reached when the first did not return, and entered on
\* if (ipv6 && ipv6 !== "" && ipv6 !== "::")
TryV6(hit, ipv6) == ~hit /\ ipv6 # "" /\ ipv6 # "::"

\* getCountryCodeFromServerIPs(ipv4, ipv6): it runs to its return; an argument
\* left out is the empty string here, both being falsy
getCountryCodeFromServerIPs(ipv4, ipv6) ==
    LET skip(st) == [st |-> st, ret |-> Null, io |-> FALSE]
        first == IF ipv4 # "" THEN ResolveIn(BlockingState, ipv4) ELSE skip(BlockingState)
        hit == first.ret.kind = "code"
        second == IF TryV6(hit, ipv6) THEN ResolveIn(first.st, ipv6) ELSE skip(first.st)
        ret == IF hit
               THEN first.ret
               ELSE IF second.ret.kind = "code"
               THEN second.ret
               ELSE Null
    IN  /\ geoIPReader' = second.st.geo
        /\ databaseType' = second.st.type
        /\ readers' = second.st.heap
        /\ ipCountryCache' = second.st.cache
        /\ last' = Finished(ret, first.io \/ second.io)
        /\ UNCHANGED <<disk, loaderVars, preloadVars, isInitializing, initPromise,
                       calls, passes>>

\* what getCacheStats() returns
StatsRes(size, maxSize) ==
    [kind |-> "stats", id |-> NULL, str |-> "", size |-> size, maxSize |-> maxSize]

\* getCacheStats()
getCacheStats ==
    /\ last' = Finished(StatsRes(Len(ipCountryCache), MAX_CACHE_SIZE), FALSE)
    /\ UNCHANGED <<disk, loaderVars, preloadVars, resolverVars, ipCountryCache,
                   readers, calls, passes>>

\* a clear that drops the resolver's Reader along with the entries
ClearCacheAndReader ==
    /\ ipCountryCache' = <<>>
    /\ geoIPReader' = NULL
    /\ UNCHANGED <<disk, loaderVars, preloadVars, databaseType, isInitializing,
                   initPromise, readers, calls, last, passes>>

\* clearCache()
clearCache ==
    /\ ipCountryCache' = <<>>
    /\ UNCHANGED <<disk, loaderVars, preloadVars, resolverVars, readers, calls,
                   last, passes>>

(* ---------------------------------------------------------- the system *)

Init ==
    /\ disk \in DiskConfigs
    /\ cachedReader = NULL
    /\ cachedBuffer = NULL
    /\ isPreloaded = FALSE
    /\ preloadPromise = None
    /\ geoIPReader = NULL
    /\ databaseType = "maxmind"
    /\ isInitializing = FALSE
    /\ initPromise = None
    /\ ipCountryCache = <<>>
    /\ readers = <<>>
    /\ calls = [c \in Callers |-> IdleCall]
    /\ last = NoCall
    /\ passes = 0

\* the calls and continuations of the program
Next ==
    \/ DirectLoad(ChunksDir)
    \/ \E c \in Callers : PreloadCall(c)
    \/ \E c \in Callers, runtime \in Runtimes : register(c, runtime)
    \/ \E c \in Callers : PreloadResume(c)
    \/ \E c \in Callers, ip \in InputIPs : getCountryCodeFromIPAsync(c, ip)
    \/ \E c \in Callers : InitResume(c)
    \/ \E c \in Callers : ResolveResume(c)
    \/ \E ip \in InputIPs : getCountryCodeFromIP(ip)
    \/ clearCache
    \/ clearChunkedCache

\* the program on database assets that stay as they are
Spec == Init /\ [][Next]_vars

\* A continuation whose awaited promise has settled is a job in the microtask
\* queue, and the event loop runs every queued job: a continuation that can
\* run does run.  Nothing obliges anyone to make a new call.
Fairness ==
    \A c \in Callers :
        /\ WF_vars(PreloadResume(c))
        /\ WF_vars(InitResume(c))
        /\ WF_vars(ResolveResume(c))

\* the operations that suspend, and what resumes them: the calls whose
\* completion depends on a continuation being run
NextAsync ==
    \/ DirectLoad(ChunksDir)
    \/ \E c \in Callers : PreloadCall(c)
    \/ \E c \in Callers : PreloadResume(c)
    \/ \E c \in Callers, ip \in {"8.8.8.8", "bad"} : getCountryCodeFromIPAsync(c, ip)
    \/ \E c \in Callers : InitResume(c)
    \/ \E c \in Callers : ResolveResume(c)
    \/ clearChunkedCache

\* the program with its pending continuations scheduled fairly
FairSpec == Init /\ [][NextAsync]_vars /\ Fairness

\* the program when nothing calls clearChunkedCache()
NextNoClear ==
    \/ DirectLoad(ChunksDir)
    \/ \E c \in Callers : PreloadCall(c)
    \/ \E c \in Callers, runtime \in Runtimes : register(c, runtime)
    \/ \E c \in Callers : PreloadResume(c)
    \/ \E c \in Callers, ip \in InputIPs : getCountryCodeFromIPAsync(c, ip)
    \/ \E c \in Callers : InitResume(c)
    \/ \E c \in Callers : ResolveResume(c)
    \/ \E ip \in InputIPs : getCountryCodeFromIP(ip)
    \/ clearCache

SpecNoClear == Init /\ [][NextNoClear]_vars

\* the loader and the preload coordinator on database assets that change
\* while the process runs
NextDisk ==
    \/ DirectLoad(ChunksDir)
    \/ \E c \in Callers : PreloadCall(c)
    \/ \E c \in Callers, runtime \in Runtimes : register(c, runtime)
    \/ \E c \in Callers : PreloadResume(c)
    \/ clearChunkedCache
    \/ DiskChange

SpecDisk == Init /\ [][NextDisk]_vars

\* the loader alone, on every state of a two-chunk directory
InitLoader ==
    /\ disk \in [chunks : LoaderDirs, mono : {{}}]
    /\ cachedReader = NULL
    /\ cachedBuffer = NULL
    /\ isPreloaded = FALSE
    /\ preloadPromise = None
    /\ geoIPReader = NULL
    /\ databaseType = "maxmind"
    /\ isInitializing = FALSE
    /\ initPromise = None
    /\ ipCountryCache = <<>>
    /\ readers = <<>>
    /\ calls = [c \in Callers |-> IdleCall]
    /\ last = NoCall
    /\ passes = 0

NextLoader ==
    \/ DirectLoad(ChunksDir)
    \/ clearChunkedCache

SpecLoader == InitLoader /\ [][NextLoader]_vars

\* the resolver alone, on every combination of assets
InitSelector ==
    /\ disk \in SelectorDisks
    /\ cachedReader = NULL
    /\ cachedBuffer = NULL
    /\ isPreloaded = FALSE
    /\ preloadPromise = None
    /\ geoIPReader = NULL
    /\ databaseType = "maxmind"
    /\ isInitializing = FALSE
    /\ initPromise = None
    /\ ipCountryCache = <<>>
    /\ readers = <<>>
    /\ calls = [c \in Callers |-> IdleCall]
    /\ last = NoCall
    /\ passes = 0

NextSelector ==
    \/ \E c \in Callers, ip \in InputIPs : getCountryCodeFromIPAsync(c, ip)
    \/ \E c \in Callers : InitResume(c)
    \/ \E c \in Callers : ResolveResume(c)
    \/ \E ip \in InputIPs : getCountryCodeFromIP(ip)

SpecSelector == InitSelector /\ [][NextSelector]_vars

\* the process starts on a deployment without any recognised database
InitNoDatabase == Init /\ ~detectDatabaseType.found

\* a database is put in place while the process runs
DatabaseInstalled ==
    /\ ~detectDatabaseType.found
    /\ DiskChange
    /\ detectDatabaseType'.found

\* the resolver on a deployment whose database arrives late
NextResolverDisk ==
    \/ \E c \in Callers, ip \in InputIPs : getCountryCodeFromIPAsync(c, ip)
    \/ \E c \in Callers : InitResume(c)
    \/ \E c \in Callers : ResolveResume(c)
    \/ \E ip \in InputIPs : getCountryCodeFromIP(ip)
    \/ DatabaseInstalled

SpecResolverDisk == InitNoDatabase /\ [][NextResolverDisk]_vars

\* the process starts on a deployment that ships the chunk directory
InitChunked == Init /\ detectDatabaseType.chunked

\* the chunked database is replaced by regular database files while the
\* process runs: the manifest goes, the files appear
DatabaseReplaced ==
    /\ detectDatabaseType.chunked
    /\ DiskChange
    /\ detectDatabaseType'.found
    /\ ~detectDatabaseType'.chunked

\* the resolver on a deployment whose database is replaced once
NextResolverSwap ==
    \/ \E c \in Callers, ip \in InputIPs : getCountryCodeFromIPAsync(c, ip)
    \/ \E c \in Callers : InitResume(c)
    \/ \E c \in Callers : ResolveResume(c)
    \/ \E ip \in InputIPs : getCountryCodeFromIP(ip)
    \/ DatabaseReplaced

SpecResolverSwap == InitChunked /\ [][NextResolverSwap]_vars

\* the blocking entry points of the resolver, on assets that stay as they are
NextServerIPs ==
    \/ \E ip \in InputIPs : getCountryCodeFromIP(ip)
    \/ \E ipv4, ipv6 \in InputIPs : getCountryCodeFromServerIPs(ipv4, ipv6)

SpecServerIPs == InitSelector /\ [][NextServerIPs]_vars

(* ------------------------------------------- the splitter, byte by byte *)

\* The splitter and the loader's reassembly on the bytes themselves.  Here
\* disk is [input, chunkSizeMB, chunks]: the database file given to the
\* splitter, its chunk-size argument, and the chunk directory, whose files
\* hold gzip streams; cachedBuffer is the byte sequence the loader keeps.

Byte == {0, 1}

\* the bytes in a megabyte, scaled down
MB == 2

\* Buffer.allocUnsafe(n) hands out memory that was not cleared: a byte of it
\* that is never written may hold anything, shown as a value no file holds
Garbage == 255

Zeros(n) == [i \in 1..n |-> 0]

\* the files the splitter and then the loader are run on: every file of up to
\* MaxBlobLen bytes
InputFiles == UNION {[1..n -> Byte] : n \in 0..MaxBlobLen}

\* files long enough for the chunk indices to reach 1000
LongInputFiles == {Zeros(n) : n \in {999 * MB, 1000 * MB, 1000 * MB + 1}}

\* zlib.gzipSync(chunk): a gzip stream that holds the bytes
gzipSync(bytes) == [gzip |-> TRUE, isize |-> Len(bytes), data |-> bytes]

\* zlib.gunzipSync(file), on a gzip stream
gunzipSync(file) == file.data

\* String(i).padStart(3, '0'): zeros are put in front up to three characters
PadStart3(i) ==
    LET str == ToString(i)
    IN  IF Len(str) >= 3 THEN str ELSE IF Len(str) = 2 THEN "0" \o str ELSE "00" \o str

\* `chunk_${String(i).padStart(3, '0')}.gz`
ChunkFileName(i) == "chunk_" \o PadStart3(i) \o ".gz"

\* a chunk count that is rounded down
FloorDiv(a, b) == a \div b

\* Math.ceil(totalSize / CHUNK_SIZE), CHUNK_SIZE at least 1
CeilDiv(a, b) == (a + b - 1) \div b

Min(a, b) == IF a <= b THEN a ELSE b

\* fileBuffer.slice(start, end)
Slice(buf, start, end) == SubSeq(buf, start + 1, end)

\* the chunk the splitter cuts in pass i of its loop
SplitChunk(fileBuffer, CHUNK_SIZE, i) ==
    Slice(fileBuffer, i * CHUNK_SIZE, Min(i * CHUNK_SIZE + CHUNK_SIZE, Len(fileBuffer)))

\* split-geoip-db.js on fileBuffer with a chunk size of chunkSizeMB: the
\* chunk directory it writes, metadata.json and one .gz file per chunk
SplitDb(fileBuffer, chunkSizeMB) ==
    LET CHUNK_SIZE == chunkSizeMB * MB
        totalSize == Len(fileBuffer)
        numChunks == CeilDiv(totalSize, CHUNK_SIZE)
    IN  [manifest |-> TRUE,
         totalSize |-> totalSize,
         chunkSize |-> CHUNK_SIZE,
         numChunks |-> numChunks,
         chunks |-> [k \in 1..numChunks |->
                       [index |-> k - 1,
                        originalSize |-> Len(SplitChunk(fileBuffer, CHUNK_SIZE, k - 1)),
                        filename |-> ChunkFileName(k - 1)]],
         files |-> [name \in {ChunkFileName(k - 1) : k \in 1..numChunks} |->
                      LET k == CHOOSE j \in 1..numChunks : ChunkFileName(j - 1) = name
                      IN  gzipSync(SplitChunk(fileBuffer, CHUNK_SIZE, k - 1))]]

\* a chunk directory nothing was written to yet
EmptyChunkDir ==
    [manifest |-> FALSE, totalSize |-> 0, chunkSize |-> 0, numChunks |-> 0,
     chunks |-> <<>>, files |-> <<>>]

\* Buffer.allocUnsafe(n)
AllocUnsafe(n) == [i \in 1..n |-> Garbage]

\* a copy that ignores the running offset and writes every chunk at the start
BufferCopyAtStart(source, target, targetStart) ==
    [k \in 1..Len(target) |-> IF k <= Len(source) THEN source[k] ELSE target[k]]

\* source.copy(target, targetStart): the bytes of source go to target from
\* targetStart on, as many as fit; none if targetStart is at or past its end
BufferCopy(source, target, targetStart) ==
    [k \in 1..Len(target) |->
        IF targetStart < k /\ k <= targetStart + Len(source)
        THEN source[k - targetStart]
        ELSE target[k]]

RECURSIVE ReassembleLoop(_, _, _, _)
\* the loop of loadGeoIPFromChunks from pass i on, on the bytes: the error it
\* throws and in which pass, or "" with the offset reached and the buffer
ReassembleLoop(dir, i, offset, fullBuffer) ==
    LET out(err) == [err |-> err, at |-> i, offset |-> offset, buffer |-> fullBuffer]
    IN  IF i >= dir.numChunks
        THEN out("")
        ELSE IF i + 1 > Len(dir.chunks)
        THEN out("type_error")
        ELSE IF dir.chunks[i + 1].filename \notin DOMAIN dir.files
        THEN out("chunk_not_found")
        ELSE LET chunkInfo == dir.chunks[i + 1]
                 decompressedChunk == gunzipSync(dir.files[chunkInfo.filename])
             IN  IF ~dir.files[chunkInfo.filename].gzip
                 THEN out("gunzip_error")
                 ELSE IF Len(decompressedChunk) # chunkInfo.originalSize
                 THEN out("size_mismatch")
                 ELSE ReassembleLoop(dir, i + 1, offset + Len(decompressedChunk),
                                     BufferCopy(decompressedChunk, fullBuffer, offset))

\* the buffer loadGeoIPFromChunks fills from a chunk directory
Reassemble(dir) == ReassembleLoop(dir, 0, 0, AllocUnsafe(dir.totalSize))

\* new Reader(fullBuffer) throws unless the buffer ends in the metadata
\* section of a database; here, a last byte of 1
IsDatabase(buf) == Len(buf) > 0 /\ buf[Len(buf)] = 1

\* the module state at load, on a disk with an input file to split
InitOn(files) ==
    /\ disk \in [input : files, chunkSizeMB : 1..MaxChunkMB, chunks : {EmptyChunkDir}]
    /\ cachedReader = NULL
    /\ cachedBuffer = NULL
    /\ isPreloaded = FALSE
    /\ preloadPromise = None
    /\ geoIPReader = NULL
    /\ databaseType = "maxmind"
    /\ isInitializing = FALSE
    /\ initPromise = None
    /\ ipCountryCache = <<>>
    /\ readers = <<>>
    /\ calls = [c \in Callers |-> IdleCall]
    /\ last = NoCall
    /\ passes = 0

\* node scripts/split-geoip-db.js input chunks chunkSizeMB
SplitGeoipDb ==
    /\ ~disk.chunks.manifest
    /\ disk' = [disk EXCEPT !.chunks = SplitDb(disk.input, disk.chunkSizeMB)]
    /\ UNCHANGED <<loaderVars, preloadVars, resolverVars, ipCountryCache, readers,
                   calls, last, passes>>

\* loadGeoIPFromChunks(chunksDir) on the bytes, run to its return
LoadBytes ==
    LET dir == disk.chunks
        loop == Reassemble(dir)
        id == Len(readers) + 1
    IN  /\ passes < MaxPasses
        /\ IF cachedReader # NULL
           THEN /\ last' = Finished(ReaderRes(cachedReader), FALSE)
                /\ UNCHANGED <<cachedReader, cachedBuffer, readers, passes>>
           ELSE IF ~dir.manifest
           THEN /\ last' = Finished(Err("metadata_not_found"), TRUE)
                /\ UNCHANGED <<cachedReader, cachedBuffer, readers, passes>>
           ELSE IF loop.err # ""
           THEN /\ last' = Finished(ErrAt(loop.err, loop.at), TRUE)
                /\ passes' = passes + 1
                /\ UNCHANGED <<cachedReader, cachedBuffer, readers>>
           ELSE IF ~IsDatabase(loop.buffer)
           THEN /\ last' = Finished(Err("invalid_db"), TRUE)
                /\ passes' = passes + 1
                /\ UNCHANGED <<cachedReader, cachedBuffer, readers>>
           ELSE /\ cachedReader' = id
                /\ cachedBuffer' = loop.buffer
                /\ readers' = Append(readers, NewReader(ChunksDir, "maxmind",
                                                        Len(loop.buffer), loop.offset))
                /\ passes' = passes + 1
                /\ last' = Finished(ReaderRes(id), TRUE)
        /\ UNCHANGED <<disk, preloadVars, resolverVars, ipCountryCache, calls>>

NextSplit ==
    \/ SplitGeoipDb
    \/ LoadBytes

InitSplit == InitOn(InputFiles)

SpecSplit == InitSplit /\ [][NextSplit]_vars

\* the splitter alone, on short and on long files
InitSplitter == InitOn(InputFiles \cup LongInputFiles)

NextSplitter == SplitGeoipDb

SpecSplitter == InitSplitter /\ [][NextSplitter]_vars

\* chunk directories of two chunks as anyone may have written them: the
\* sizes the manifest records, the total it records and the lengths of what
\* the two files hold each chosen freely; the first file holds 0s, the
\* second 1s
ManifestDirs ==
    {[manifest |-> TRUE, totalSize |-> t, chunkSize |-> MaxChunkMB, numChunks |-> 2,
      chunks |-> <<[index |-> 0, originalSize |-> a, filename |-> ChunkFileName(0)],
                   [index |-> 1, originalSize |-> b, filename |-> ChunkFileName(1)]>>,
      files |-> [name \in {ChunkFileName(0), ChunkFileName(1)} |->
                   IF name = ChunkFileName(0)
                   THEN gzipSync([i \in 1..fa |-> 0])
                   ELSE gzipSync([i \in 1..fb |-> 1])]] :
        t \in 0..MaxBlobLen, a \in 0..MaxChunkMB, b \in 0..MaxChunkMB,
        fa \in 0..MaxChunkMB, fb \in 0..MaxChunkMB}

InitReassemble ==
    /\ disk \in [input : {<<>>}, chunkSizeMB : {MaxChunkMB}, chunks : ManifestDirs]
    /\ cachedReader = NULL
    /\ cachedBuffer = NULL
    /\ isPreloaded = FALSE
    /\ preloadPromise = None
    /\ geoIPReader = NULL
    /\ databaseType = "maxmind"
    /\ isInitializing = FALSE
    /\ initPromise = None
    /\ ipCountryCache = <<>>
    /\ readers = <<>>
    /\ calls = [c \in Callers |-> IdleCall]
    /\ last = NoCall
    /\ passes = 0

\* the loader on the bytes of any such directory
NextReassemble ==
    \/ LoadBytes
    \/ clearChunkedCache

SpecReassemble == InitReassemble /\ [][NextReassemble]_vars

\* the resolver with the two operations on its cache, on assets that stay as
\* they are
NextCache ==
    \/ \E c \in Callers, ip \in InputIPs : getCountryCodeFromIPAsync(c, ip)
    \/ \E c \in Callers : InitResume(c)
    \/ \E c \in Callers : ResolveResume(c)
    \/ \E ip \in InputIPs : getCountryCodeFromIP(ip)
    \/ clearCache
    \/ getCacheStats

SpecCache == Init /\ [][NextCache]_vars

\* isGeoIPPreloaded()
isGeoIPPreloaded == isPreloaded

\* the loader called with either directory
NextDirs ==
    \/ \E chunksDir \in Dirs : DirectLoad(chunksDir)
    \/ clearChunkedCache

SpecDirs == InitLoader /\ [][NextDirs]_vars

\* no non-blocking call is suspended: the caller awaits each one before it
\* makes the next call
NoCallSuspended == \A c \in Callers : calls[c].pc = "idle"

\* resolve calls made one after the other, each non-blocking call awaited
\* before the next call starts
NextSequential ==
    \/ \E c \in Callers, ip \in InputIPs :
          NoCallSuspended /\ getCountryCodeFromIPAsync(c, ip)
    \/ \E c \in Callers : InitResume(c)
    \/ \E c \in Callers : ResolveResume(c)
    \/ \E ip \in InputIPs : NoCallSuspended /\ getCountryCodeFromIP(ip)
    \/ NoCallSuspended /\ clearCache

SpecSequential == Init /\ [][NextSequential]_vars

(* ---------------------------------------------------------------- claims *)

\* a chunk directory a load succeeds on
ValidChunkDir(dir) ==
    /\ dir.manifest
    /\ dir.numChunks <= Len(dir.chunks)
    /\ \A i \in 1..dir.numChunks : dir.files[i] = dir.chunks[i]
    /\ dir.validDb

\* the Readers that a caller has been handed or that a module variable holds
ReadersHeld ==
    {cachedReader, geoIPReader} \cup
    (IF last.ret.kind = "reader" THEN {last.ret.id} ELSE {}) \cup
    {calls[c].aw.id : c \in {d \in Callers : calls[d].aw.kind = "reader"}}

\* C1: single-flight load.  While the chunk directory is valid and nothing
\* clears the loader's cache, whatever calls of preloadGeoIPDatabase,
\* getCountryCodeFromIPAsync and loadGeoIPFromChunks are in flight together and
\* however their continuations interleave, at most one pass over the chunk
\* files is made, exactly one once a caller holds a Reader of the loader, and
\* every Reader handed to a caller is the same instance, the first one
\* constructed.
C1_SingleFlightLoad ==
    ValidChunkDir(disk.chunks) =>
        /\ passes <= 1
        /\ Len(readers) = passes
        /\ ReadersHeld \subseteq {NULL, 1}
        /\ (ReadersHeld # {NULL} => passes = 1)

\* C1 witness: a preload and a non-blocking resolve are in flight at once on a
\* valid directory, both were handed Reader 1, and one pass was made
C1_Witness ==
    /\ ValidChunkDir(disk.chunks)
    /\ passes = 1
    /\ \E c, d \in Callers :
        /\ calls[c].pc = "preload_await"
        /\ calls[d].pc = "init_await"
        /\ calls[c].aw = ReaderRes(1)
        /\ calls[d].aw = ReaderRes(1)

\* C2: the blocking resolver uses the preloaded chunked database.  Once
\* preloadGeoIPDatabase() has succeeded on a chunked database (isPreloaded, and
\* the loader holds the Reader), getCountryCodeFromIP(ip) for a parsable,
\* uncached ip returns the country code that Reader maps ip to, not null
\* through the "not preloaded" error.
C2_BlockingUsesPreloaded ==
    [][\A ip \in ParsableIPs :
          (/\ isPreloaded
           /\ cachedReader # NULL
           /\ hasChunkedDatabase(ChunksDir)
           /\ ~CacheHas(ipCountryCache, ip)
           /\ getCountryCodeFromIP(ip))
          => last'.ret = CodeRes(extractCountryCode(Lookup(readers[cachedReader], ip), "maxmind"))
      ]_vars

\* C3: cache capacity.  In every reachable state the resolution cache holds
\* at most MAX_CACHE_SIZE entries.
C3_CacheCapacity == Len(ipCountryCache) <= MAX_CACHE_SIZE

\* C3 witness: a resolve call has just returned a code it looked up, its
\* entry is the newest of the cache, and the cache is full
C3_Witness ==
    /\ Len(ipCountryCache) = MAX_CACHE_SIZE
    /\ last.ret.kind = "code"
    /\ ipCountryCache[MAX_CACHE_SIZE].val = last.ret.str
    /\ \A c \in Callers : calls[c].pc = "idle"

\* C4: FIFO eviction.  A step that puts a key the cache does not hold into a
\* cache of exactly MAX_CACHE_SIZE entries removes exactly the entry inserted
\* earliest (the first in insertion order), keeps the others in their order
\* and puts the new entry last.
C4_FifoEviction ==
    [][(/\ Len(ipCountryCache) = MAX_CACHE_SIZE
        /\ CacheKeys(ipCountryCache') \ CacheKeys(ipCountryCache) # {})
       => /\ Len(ipCountryCache') = MAX_CACHE_SIZE
          /\ SubSeq(ipCountryCache', 1, MAX_CACHE_SIZE - 1) = Tail(ipCountryCache)
          /\ ipCountryCache'[MAX_CACHE_SIZE].key \notin CacheKeys(ipCountryCache)
      ]_vars

\* C4 witness: the cache is full and a non-blocking resolve that holds the
\* Reader is about to put a key the cache does not hold
C4_Witness ==
    /\ Len(ipCountryCache) = MAX_CACHE_SIZE
    /\ \E c \in Callers :
        /\ calls[c].pc = "resolve_await"
        /\ calls[c].aw.kind = "reader"
        /\ calls[c].arg \in ParsableIPs
        /\ calls[c].arg \notin CacheKeys(ipCountryCache)

\* the first chunk of the directory that is not as the manifest says is there
\* and decompresses, to a length other than its originalSize
FirstDefectIsSizeMismatch(dir) ==
    /\ dir.manifest
    /\ \E i \in 1..dir.numChunks :
        /\ dir.files[i] >= 0
        /\ dir.files[i] # dir.chunks[i]
        /\ \A j \in 1..(i - 1) : dir.files[j] = dir.chunks[j]

\* the load of this step failed with e: a direct call returned the failure,
\* or a preload or an initialisation is newly suspended on it
LoadFailedWith(e) ==
    \/ /\ calls' = calls
       /\ last'.ret.kind = "error"
       /\ last'.ret.str = e
       /\ last'.io
    \/ \E c \in Callers :
        /\ calls[c].pc = "idle"
        /\ calls'[c].pc \in {"preload_await", "init_await"}
        /\ calls'[c].aw.kind = "error"
        /\ calls'[c].aw.str = e

\* C5: an integrity failure leaves nothing cached.  A pass over a directory
\* whose first defective chunk decompresses to another length than the
\* manifest records fails with the size-mismatch error, constructs no Reader,
\* and leaves cachedReader and cachedBuffer null.
C5_IntegrityFailureNotCached ==
    [][(passes' = passes + 1 /\ FirstDefectIsSizeMismatch(disk.chunks))
       => /\ LoadFailedWith("size_mismatch")
          /\ readers' = readers
          /\ cachedReader' = NULL
          /\ cachedBuffer' = NULL
      ]_vars

\* C5 witness: a direct load has just failed with the size-mismatch error
\* after a pass, and the loader holds nothing
C5_Witness ==
    /\ last.ret.kind = "error"
    /\ last.ret.str = "size_mismatch"
    /\ passes >= 1
    /\ cachedReader = NULL
    /\ cachedBuffer = NULL

\* C6: shared failure outcome.  While a caller's failed load of the chunk
\* directory is still in flight (the preload or the initialisation that
\* awaits it has not resumed), no further pass over the chunk files is
\* started: a caller that asks for the load in the meantime shares the one
\* failure.
C6_SharedFailure ==
    [][(\E c \in Callers :
            /\ calls[c].pc \in {"preload_await", "init_await"}
            /\ calls[c].aw.kind = "error")
       => passes' = passes
      ]_vars

\* C7: preload idempotence.  A preloadGeoIPDatabase() call made while an
\* earlier preload is in flight is handed that preload's promise and starts
\* no load; a call made once isPreloaded is true returns at once, without
\* touching the disk and without changing any variable of the program.
C7_PreloadIdempotent ==
    [][\A c \in Callers :
          PreloadCall(c) =>
            /\ (~isPreloaded /\ \E o \in Callers : calls[o].pc = "preload_await")
               => /\ \E o \in Callers :
                      /\ calls[o].pc = "preload_await"
                      /\ preloadPromise = Pending(o)
                      /\ calls' = [calls EXCEPT ![c] = Suspended("preload_wait", "", Pending(o))]
                  /\ UNCHANGED <<disk, loaderVars, preloadVars, resolverVars,
                                 ipCountryCache, readers, last, passes>>
            /\ isPreloaded
               => /\ last' = Finished(Void, FALSE)
                  /\ UNCHANGED <<disk, loaderVars, preloadVars, resolverVars,
                                 ipCountryCache, readers, calls, passes>>
      ]_vars

\* C7 witness: one preload awaits its load and a second call waits on the
\* promise of the first
C7_Witness ==
    \E c, o \in Callers :
        /\ calls[o].pc = "preload_await"
        /\ calls[c].pc = "preload_wait"
        /\ calls[c].aw = Pending(o)
        /\ passes = 1

\* C8: preload never fails startup.  The promise of preloadGeoIPDatabase()
\* and of register() is fulfilled, never rejected, whatever the load did; a
\* preload whose load failed leaves isPreloaded false; and after it a
\* getCountryCodeFromIPAsync call on an uncached ip, with no Reader held and
\* no initialisation in flight, starts a pass over the chunk directory again.
C8_PreloadNeverFails ==
    [][\A c \in Callers :
          /\ ((PreloadCall(c) \/ \E runtime \in Runtimes : register(c, runtime))
                 /\ calls' = calls)
             => last'.ret = Void
          /\ PreloadResume(c)
             => /\ last'.ret = Void
                /\ \A d \in Callers : calls'[d].pc \notin {"preload_await", "preload_wait"}
                /\ (calls[c].aw.kind = "error" => ~isPreloaded')
          /\ \A ip \in ParsableIPs \cup {"bad"} :
                (/\ getCountryCodeFromIPAsync(c, ip)
                 /\ ~isPreloaded /\ cachedReader = NULL /\ geoIPReader = NULL
                 /\ ~(isInitializing /\ initPromise # None)
                 /\ hasChunkedDatabase(ChunksDir)
                 /\ ~CacheHas(ipCountryCache, ip))
                => passes' = passes + 1
      ]_vars

\* C8 witness: a preload is about to resume on a load that failed
C8_Witness ==
    \E c \in Callers :
        /\ calls[c].pc = "preload_await"
        /\ calls[c].aw.kind = "error"
        /\ ~isPreloaded
        /\ cachedReader = NULL

\* C9: process-wide singleton Provider.  When nothing calls
\* clearChunkedCache() and the assets on disk stay as they are, at most one
\* Reader is ever constructed, and cachedReader and geoIPReader, once set,
\* keep their value.
C9_SingletonProvider ==
    [][/\ Len(readers') <= 1
       /\ (cachedReader # NULL => cachedReader' = cachedReader)
       /\ (geoIPReader # NULL => geoIPReader' = geoIPReader)
      ]_vars

\* C9 witness: after a preload and a non-blocking resolve, the loader and
\* the resolver hold the one Reader
C9_Witness ==
    /\ Len(readers) = 1
    /\ isPreloaded
    /\ cachedReader = 1
    /\ geoIPReader = 1

\* C10: a cached load touches no disk.  Once the loader holds a Reader, a
\* loadGeoIPFromChunks call returns that Reader without touching the disk,
\* starts no pass and constructs nothing, whatever is on disk by then.
C10_CachedLoadNoDisk ==
    [][(cachedReader # NULL /\ DirectLoad(ChunksDir))
       => /\ last' = Finished(ReaderRes(cachedReader), FALSE)
          /\ passes' = passes
          /\ UNCHANGED <<loaderVars, readers>>
      ]_vars

\* C10 witness: a load has returned the cached Reader without touching the
\* disk, and the chunk directory on disk has no manifest
C10_Witness ==
    /\ cachedReader # NULL
    /\ last = Finished(ReaderRes(cachedReader), FALSE)
    /\ ~ValidChunkDir(disk.chunks)

\* C11: a load failure is not sticky and not retried.  A loadGeoIPFromChunks
\* call that fails makes at most one pass and changes no variable of the
\* program; and whatever failed before, a call made while the loader holds no
\* Reader and the directory on disk is valid reads the manifest and the chunks
\* anew, makes one pass and returns the Reader it constructs and caches.
C11_FailureNotSticky ==
    [][DirectLoad(ChunksDir) =>
          /\ last'.ret.kind = "error"
             => /\ passes' <= passes + 1
                /\ UNCHANGED <<loaderVars, preloadVars, resolverVars, readers,
                               calls, ipCountryCache>>
          /\ (cachedReader = NULL /\ ValidChunkDir(disk.chunks))
             => /\ passes' = passes + 1
                /\ Len(readers') = Len(readers) + 1
                /\ cachedReader' = Len(readers')
                /\ last' = Finished(ReaderRes(cachedReader'), TRUE)
      ]_vars

\* C11 witness: two passes were made, the first failed, the directory was
\* repaired, and the second load has just returned the one Reader
C11_Witness ==
    /\ passes = 2
    /\ Len(readers) = 1
    /\ cachedReader = 1
    /\ last = Finished(ReaderRes(1), TRUE)
    /\ \A c \in Callers : calls[c].pc = "idle"

\* C12: missing-file failures.  A loadGeoIPFromChunks call made while the
\* loader holds no Reader fails with the metadata-not-found error, before a
\* pass over the chunks starts, when the manifest is absent; and when the
\* manifest is there and the file of chunk i is absent, the chunks before it
\* being as the manifest says, it fails with the chunk-not-found error that
\* names chunk i, the loop having stopped at i.  In both cases nothing is
\* cached and no Reader is constructed.
C12_MissingFileFailures ==
    [][(DirectLoad(ChunksDir) /\ cachedReader = NULL) =>
          LET dir == disk.chunks
              nothingCached ==
                  /\ cachedReader' = NULL
                  /\ cachedBuffer' = NULL
                  /\ readers' = readers
          IN  /\ ~dir.manifest
                 => /\ last' = Finished(Err("metadata_not_found"), TRUE)
                    /\ passes' = passes
                    /\ nothingCached
              /\ \A i \in 0..(dir.numChunks - 1) :
                    (/\ dir.manifest
                     /\ dir.files[i + 1] = Absent
                     /\ \A j \in 0..(i - 1) : dir.files[j + 1] = dir.chunks[j + 1])
                    => /\ last' = Finished(ErrAt("chunk_not_found", i), TRUE)
                       /\ passes' = passes + 1
                       /\ nothingCached
      ]_vars

\* C12 witness: chunk 0 is as the manifest says, the file of chunk 1 is
\* absent, and a load has just failed naming chunk 1
C12_Witness ==
    /\ disk.chunks.manifest
    /\ disk.chunks.files[1] = disk.chunks.chunks[1]
    /\ disk.chunks.files[2] = Absent
    /\ last = Finished(ErrAt("chunk_not_found", 1), TRUE)
    /\ cachedReader = NULL

\* every variable of the program but `last`, the outcome handed to the caller
\* of the step
allButLast ==
    <<disk, cachedReader, cachedBuffer, isPreloaded, preloadPromise, geoIPReader,
      databaseType, isInitializing, initPromise, ipCountryCache, readers, calls,
      passes>>

\* C13: memoization.  A blocking or non-blocking resolve of a key the cache
\* holds returns the value stored for it at once: no Reader is obtained or
\* constructed, no call is left suspended, the disk is not touched, and no
\* variable of the program changes.
C13_Memoization ==
    [][\A ip \in InputIPs :
          (/\ ip \in CacheKeys(ipCountryCache)
           /\ \/ getCountryCodeFromIP(ip)
              \/ \E c \in Callers : getCountryCodeFromIPAsync(c, ip))
          => /\ \E i \in 1..Len(ipCountryCache) :
                  /\ ipCountryCache[i].key = ip
                  /\ last' = Finished(CodeRes(ipCountryCache[i].val), FALSE)
             /\ UNCHANGED allButLast
      ]_vars

\* C13 witness: the cache holds "8.8.8.8" with "US", no call is in flight, and
\* a resolve has just returned "US" without touching the disk
C13_Witness ==
    /\ ipCountryCache = <<[key |-> "8.8.8.8", val |-> "US"]>>
    /\ last = Finished(CodeRes("US"), FALSE)
    /\ \A c \in Callers : calls[c].pc = "idle"

\* the cache holds the 'no match' entry for ip
HasNoMatchEntry(cache, ip) ==
    \E i \in 1..Len(cache) : cache[i] = [key |-> ip, val |-> ""]

\* C14: not-found is cached.  A resolve of an ip that returns null because the
\* Reader has no match for it, or a record without a country code (and not
\* because an error was swallowed), stores the 'no match' entry for the ip;
\* and a resolve of an ip whose 'no match' entry is held returns null from the
\* cache, without a second query and with no variable changed.
C14_NotFoundCached ==
    [][\A ip \in ParsableIPs :
          /\ (/\ ip \notin CacheKeys(ipCountryCache)
              /\ getCountryCodeFromIP(ip)
              /\ last'.ret = Null)
             => HasNoMatchEntry(ipCountryCache', ip)
          /\ \A c \in Callers :
                (/\ calls[c].arg = ip
                 /\ ResolveResume(c)
                 /\ last'.ret = Null)
                => HasNoMatchEntry(ipCountryCache', ip)
          /\ (/\ HasNoMatchEntry(ipCountryCache, ip)
              /\ \/ getCountryCodeFromIP(ip)
                 \/ \E c \in Callers : getCountryCodeFromIPAsync(c, ip))
             => /\ last' = Finished(Null, FALSE)
                /\ UNCHANGED allButLast
      ]_vars

\* C14 witness: "203.0.113.1", which no database holds, was resolved; its
\* 'no match' entry is the cache, and the last resolve returned null
C14_Witness ==
    /\ ipCountryCache = <<[key |-> "203.0.113.1", val |-> ""]>>
    /\ last.ret = Null
    /\ geoIPReader # NULL

C16_EntryLifecycle ==
    [][/\ \A i \in 1..Len(ipCountryCache), j \in 1..Len(ipCountryCache') :
            ipCountryCache[i].key = ipCountryCache'[j].key
            => ipCountryCache[i].val = ipCountryCache'[j].val
       /\ CacheKeys(ipCountryCache) \ CacheKeys(ipCountryCache') # {}
          => \/ ipCountryCache' = <<>>
             \/ /\ Len(ipCountryCache) >= MAX_CACHE_SIZE
                /\ CacheKeys(ipCountryCache) \ CacheKeys(ipCountryCache')
                       = {ipCountryCache[1].key}
      ]_vars

\* C16 witness: a non-blocking resolve that found its ip uncached holds the
\* Reader and is about to store the ip, which another call has stored since
C16_Witness ==
    \E c \in Callers :
        /\ calls[c].pc = "resolve_await"
        /\ calls[c].aw.kind = "reader"
        /\ calls[c].arg \in CacheKeys(ipCountryCache)

\* C17: input validation has no side effects.  A blocking or non-blocking
\* resolve of "" or of "::" returns null at once: the cache is neither read
\* nor written, no database is selected or loaded, no Reader is queried, the
\* disk is not touched and no variable of the program changes; and neither
\* string is ever a key of the cache.
C17_ValidationNoSideEffects ==
    [][/\ \A ip \in {"", "::"} :
            (\/ getCountryCodeFromIP(ip)
             \/ \E c \in Callers : getCountryCodeFromIPAsync(c, ip))
            => /\ last' = Finished(Null, FALSE)
               /\ UNCHANGED allButLast
       /\ CacheKeys(ipCountryCache') \cap {"", "::"} = {}
      ]_vars

\* C17 witness: a resolve has returned null without touching the disk in a
\* process that has no Reader, an empty cache and no call in flight, which
\* only the validation does
C17_Witness ==
    /\ last = Finished(Null, FALSE)
    /\ readers = <<>>
    /\ ipCountryCache = <<>>
    /\ passes = 0
    /\ ~isInitializing
    /\ initPromise = None
    /\ \A c \in Callers : calls[c].pc = "idle"

ResolveResults == {"code", "null"}

\* C19: resolve never throws.  Whatever the input string and whatever fails
\* while the Reader is obtained or queried (no database found, not
\* preloaded, a failed load, an exception of the lookup), getCountryCodeFromIP
\* returns a code or null, and the promise of getCountryCodeFromIPAsync is
\* fulfilled with a code or null, with null where something failed; neither
\* hands an error to its caller.  Stated step by step: a step that returns
\* at once something other than a code or null is no step of either function;
\* a step that returns at once something other than null is no step of
\* getCountryCodeFromIP on an uncached ip whose Reader cannot be obtained or
\* whose lookup throws; and the continuation of getCountryCodeFromIPAsync
\* settles with a code or null, with null after a failure.
C19_ResolveNeverThrows ==
    [][/\ (calls' = calls /\ last'.ret.kind \notin ResolveResults)
          => \A c \in Callers, ip \in InputIPs :
                /\ ~getCountryCodeFromIP(ip)
                /\ ~getCountryCodeFromIPAsync(c, ip)
       /\ (calls' = calls /\ last'.ret.kind # "null")
          => \A ip \in InputIPs :
                (/\ ~IsBlankIP(ip)
                 /\ ip \notin CacheKeys(ipCountryCache)
                 /\ \/ initGeoIPReader.err # ""
                    \/ ip \notin ParsableIPs)
                => ~getCountryCodeFromIP(ip)
       /\ \A c \in Callers :
            (calls[c].pc = "resolve_await" /\ calls'[c].pc = "idle")
            => (ResolveResume(c)
                => /\ last'.ret.kind \in ResolveResults
                   /\ (\/ calls[c].aw.kind = "error"
                       \/ calls[c].arg \notin ParsableIPs)
                      => last'.ret.kind = "null")
      ]_vars

\* C19 witness: a non-blocking resolve whose load failed on a chunk of the
\* wrong length has been fulfilled with null
C19_Witness ==
    /\ last = Finished(NullBy("size_mismatch"), FALSE)
    /\ ~isInitializing
    /\ geoIPReader = NULL

\* the places the selector looks at, in the order of the claim
Priority == <<"chunks", "country.mmdb", "ipinfo_lite.mmdb", "GeoLite2-City.mmdb">>

\* the places where something is present: for the chunk directory its
\* manifest, for a regular file the file
PresentPlaces ==
    {k \in 1..4 : IF k = 1 THEN disk.chunks.manifest ELSE Priority[k] \in disk.mono}

\* C20: selector priority.  On every combination of assets,
\* detectDatabaseType finds a database exactly when the manifest or one of the
\* three regular files is present, and then returns the first present one
\* in the order chunk directory, country.mmdb, ipinfo_lite.mmdb,
\* GeoLite2-City.mmdb: chunked only for the chunk directory, type ipinfo for
\* the two IPInfo files and maxmind otherwise.  The manifest's existence
\* alone selects the chunk directory, whatever state the chunks are in.
\* Every Reader the resolver constructs or takes is from the place selected,
\* and databaseType is the type selected.
C20_SelectorPriority ==
    LET d == detectDatabaseType
        first == CHOOSE k \in PresentPlaces : \A j \in PresentPlaces : k <= j
    IN  /\ d.found <=> PresentPlaces # {}
        /\ PresentPlaces # {}
           => /\ d.path = Priority[first]
              /\ d.chunked <=> first = 1
              /\ d.type = IF first \in {2, 3} THEN "ipinfo" ELSE "maxmind"
              /\ \A i \in 1..Len(readers) :
                    /\ readers[i].src = Priority[first]
                    /\ readers[i].fmt = d.type
              /\ geoIPReader # NULL => databaseType = d.type
        /\ PresentPlaces = {} => readers = <<>>

\* C20 witness: no manifest, all three regular files present, and the
\* resolver holds a Reader built from country.mmdb
C20_Witness ==
    /\ ~disk.chunks.manifest
    /\ disk.mono = MonoFiles
    /\ geoIPReader # NULL
    /\ readers[geoIPReader].src = "country.mmdb"
    /\ databaseType = "ipinfo"

C22_BlockingLoadsOnFirstUse ==
    [][\A ip \in InputIPs \ {"", "::"} :
          (ip \notin CacheKeys(ipCountryCache) /\ getCountryCodeFromIP(ip)) =>
            LET d == detectDatabaseType
            IN  /\ (geoIPReader = NULL /\ d.found /\ ~d.chunked)
                   => /\ last'.io
                      /\ readers' = Append(readers, NewReader(d.path, d.type, 1, 1))
                      /\ geoIPReader' = Len(readers')
                      /\ databaseType' = d.type
                      /\ last'.ret =
                           IF ip \in ParsableIPs
                           THEN CodeRes(extractCountryCode(
                                    Lookup(readers'[geoIPReader'], ip), d.type))
                           ELSE NullBy("lookup_error")
                /\ geoIPReader # NULL
                   => /\ ~last'.io
                      /\ UNCHANGED <<geoIPReader, databaseType, readers>>
                      /\ last'.ret =
                           IF ip \in ParsableIPs
                           THEN CodeRes(extractCountryCode(
                                    Lookup(readers[geoIPReader], ip), databaseType))
                           ELSE NullBy("lookup_error")
      ]_vars

\* C22 witness: the blocking form built the Reader from a regular file, and a
\* later blocking call on another ip answered from it without reading
C22_Witness ==
    /\ geoIPReader # NULL
    /\ readers[geoIPReader].src \in MonoFiles
    /\ Len(readers) = 1
    /\ Len(ipCountryCache) = 2
    /\ last.ret.kind = "code"
    /\ ~last.io
    /\ \A c \in Callers : calls[c].pc = "idle"
    /\ initPromise = None

\* C23: response normalisation reads a record in the format of the Reader
\* that produced it.  A non-blocking resolve that resumes with a Reader and
\* looks a parsable ip up in it returns the country code that
\* extractCountryCode gives for the record in the format that Reader was
\* constructed with.
C23_FormatOfProviderInUse ==
    [][\A c \in Callers :
          (/\ calls[c].pc = "resolve_await"
           /\ calls[c].aw.kind = "reader"
           /\ calls[c].arg \in ParsableIPs
           /\ ResolveResume(c))
          => LET r == readers[calls[c].aw.id]
             IN  last'.ret = CodeRes(extractCountryCode(Lookup(r, calls[c].arg), r.fmt))
      ]_vars

\* the blocking form agrees with ResolveIn on the state it is called in
BlockingIsResolveIn ==
    [][\A ip \in InputIPs :
          getCountryCodeFromIP(ip) =>
            LET r == ResolveIn(BlockingState, ip)
            IN  /\ last' = Finished(r.ret, r.io)
                /\ BlockingState' = r.st
      ]_vars

\* C24: two-address resolution.  When v4 is non-empty and the blocking form
\* resolves it to a country, getCountryCodeFromServerIPs(v4, v6) returns that
\* country and leaves the state the resolve of v4 alone leaves, so a v6 that
\* was not cached is not cached and no Reader is constructed for it.
\* Otherwise, when v6 is neither empty nor "::" and the blocking form, run
\* after the attempt on v4, resolves it to a country, that country is
\* returned; otherwise null.
C24_TwoAddressResolution ==
    [][\A v4, v6 \in InputIPs :
          getCountryCodeFromServerIPs(v4, v6) =>
            LET r4 == ResolveIn(BlockingState, v4)
                hit4 == v4 # "" /\ r4.ret.kind = "code"
                after4 == IF v4 # "" THEN r4.st ELSE BlockingState
                r6 == ResolveIn(after4, v6)
                hit6 == v6 \notin {"", "::"} /\ r6.ret.kind = "code"
            IN  /\ hit4
                   => /\ last'.ret = r4.ret
                      /\ BlockingState' = r4.st
                      /\ (v6 # v4 /\ v6 \notin CacheKeys(ipCountryCache))
                         => v6 \notin CacheKeys(ipCountryCache')
                /\ (~hit4 /\ hit6) => last'.ret = r6.ret
                /\ (~hit4 /\ ~hit6) => last'.ret = Null
      ]_vars

\* C24 witness: one call constructed the Reader, found no country for the
\* first address, cached that, and returned the country of the second
C24_Witness ==
    /\ last = Finished(CodeRes("AU"), TRUE)
    /\ HasNoMatchEntry(ipCountryCache, "203.0.113.1")
    /\ Len(ipCountryCache) = 2
    /\ Len(readers) = 1

\* C25: split and reassemble is the identity.  Whatever file the splitter
\* was run on, of length zero or not a multiple of the chunk size included,
\* and whatever chunk size of a megabyte or more it was given, the loader's
\* loop run on the directory the splitter wrote ends without an error, with
\* a buffer as long as the file that holds the file's byte at every
\* position, none of them left as allocated.
C25_SplitReassembleRoundTrip ==
    disk.chunks.manifest =>
        LET out == Reassemble(disk.chunks)
        IN  /\ out.err = ""
            /\ Len(out.buffer) = Len(disk.input)
            /\ \A k \in 1..Len(disk.input) : out.buffer[k] = disk.input[k]
            /\ cachedReader # NULL => cachedBuffer = disk.input

\* C25 witness: a file whose length is not a multiple of the chunk size was
\* split into three chunks and the loader holds its bytes again
C25_Witness ==
    /\ disk.chunks.manifest
    /\ Len(disk.input) = MaxBlobLen
    /\ disk.chunks.numChunks = 3
    /\ Len(disk.input) % disk.chunks.chunkSize # 0
    /\ cachedReader # NULL
    /\ cachedBuffer = disk.input
    /\ \E k \in 1..Len(disk.input) : disk.input[k] # disk.input[1]

RECURSIVE SumOriginalSize(_, _, _)
\* the sum of originalSize over chunks[lo..hi]
SumOriginalSize(chunks, lo, hi) ==
    IF lo > hi
    THEN 0
    ELSE IF lo = hi
    THEN chunks[lo].originalSize
    ELSE LET mid == (lo + hi) \div 2
         IN  SumOriginalSize(chunks, lo, mid) + SumOriginalSize(chunks, mid + 1, hi)

\* the last three decimal digits of i
ThreeDigits(i) ==
    ToString((i \div 100) % 10) \o ToString((i \div 10) % 10) \o ToString(i % 10)

\* what the manifest of the splitter satisfies whatever the number of chunks:
\* the count, the indices, the sizes and their sum
ManifestCountsAndSizes(m) ==
    /\ m.numChunks = Len(m.chunks)
    /\ \A k \in 1..Len(m.chunks) :
        /\ m.chunks[k].index = k - 1
        /\ m.chunks[k].originalSize <= m.chunkSize
        /\ k < Len(m.chunks) => m.chunks[k].originalSize = m.chunkSize
        /\ m.chunks[k].originalSize > 0
    /\ SumOriginalSize(m.chunks, 1, Len(m.chunks)) = m.totalSize

\* C26 as stated: every manifest the splitter writes has numChunks entries
\* with indices 0..numChunks-1 in ascending order, every file is named
\* chunk_ddd.gz with ddd the three digits of its index, every originalSize
\* is at most chunkSize and only the last may be smaller, and the sizes sum
\* to totalSize.
C26_ManifestThreeDigitNames ==
    disk.chunks.manifest =>
        /\ ManifestCountsAndSizes(disk.chunks)
        /\ \A k \in 1..Len(disk.chunks.chunks) :
              disk.chunks.chunks[k].filename = "chunk_" \o ThreeDigits(k - 1) \o ".gz"

\* C26, amended: the same, except that the index in a file name is padded
\* with zeros to at least three digits: three digits for an index below
\* 1000, and all the digits of the index from 1000 on.  Each name is that of
\* exactly one file in the directory.
C26_ManifestInvariants ==
    disk.chunks.manifest =>
        /\ ManifestCountsAndSizes(disk.chunks)
        /\ \A k \in 1..Len(disk.chunks.chunks) :
            /\ disk.chunks.chunks[k].filename =
                  "chunk_" \o (IF k - 1 < 1000 THEN ThreeDigits(k - 1) ELSE ToString(k - 1))
                           \o ".gz"
            /\ disk.chunks.chunks[k].filename \in DOMAIN disk.chunks.files
            /\ \A j \in 1..Len(disk.chunks.chunks) :
                  j # k => disk.chunks.chunks[j].filename # disk.chunks.chunks[k].filename

\* C26 witness: a manifest of 1001 chunks, the last one smaller than the rest
C26_Witness ==
    /\ disk.chunks.manifest
    /\ disk.chunks.numChunks = 1001
    /\ disk.chunks.chunks[1001].originalSize < disk.chunks.chunkSize
    /\ disk.chunks.chunks[1000].originalSize = disk.chunks.chunkSize

\* every chunk file of the directory holds as many bytes as the manifest
\* records for it
ChunkFilesAsRecorded(dir) ==
    \A k \in 1..dir.numChunks :
        /\ dir.chunks[k].filename \in DOMAIN dir.files
        /\ dir.files[dir.chunks[k].filename].gzip
        /\ Len(gunzipSync(dir.files[dir.chunks[k].filename])) = dir.chunks[k].originalSize

RECURSIVE ChunksInOrder(_, _)
\* the bytes of chunks 0..n-1 of the directory, one after the other
ChunksInOrder(dir, n) ==
    IF n = 0
    THEN <<>>
    ELSE ChunksInOrder(dir, n - 1) \o gunzipSync(dir.files[dir.chunks[n].filename])

\* C27: sequential in-order reassembly.  On a directory whose chunk files are
\* as the manifest records them, the loader's loop ends without an error with
\* a buffer of exactly totalSize bytes, in which the bytes of chunk i lie from
\* the sum of the originalSize of the chunks before it on (as far as the
\* buffer reaches), and its offset ends at the sum of all originalSize.  When
\* that sum is totalSize the buffer is the chunks one after the other with no
\* byte left as allocated, and the Reader built on it is given exactly
\* totalSize bytes.
C27_SequentialReassembly ==
    LET dir == disk.chunks
        out == Reassemble(dir)
        whole == ChunksInOrder(dir, dir.numChunks)
        sum == SumOriginalSize(dir.chunks, 1, dir.numChunks)
    IN  (dir.manifest /\ ChunkFilesAsRecorded(dir)) =>
            /\ out.err = ""
            /\ Len(out.buffer) = dir.totalSize
            /\ out.offset = sum
            /\ \A k \in 1..dir.totalSize :
                  out.buffer[k] = IF k <= Len(whole) THEN whole[k] ELSE Garbage
            /\ sum = dir.totalSize
               => /\ out.buffer = whole
                  /\ cachedReader # NULL
                     => /\ cachedBuffer = whole
                        /\ readers[cachedReader].size = dir.totalSize
                        /\ readers[cachedReader].filled = dir.totalSize

\* C27 witness: a manifest of two chunks of different sizes that sum to
\* totalSize, and a Reader built on the buffer the loader filled
C27_Witness ==
    /\ disk.chunks.manifest
    /\ disk.chunks.numChunks = 2
    /\ disk.chunks.chunks[1].originalSize = 2
    /\ disk.chunks.chunks[2].originalSize = 1
    /\ disk.chunks.totalSize = 3
    /\ cachedReader # NULL
    /\ cachedBuffer = <<0, 0, 1>>
    /\ readers[cachedReader].size = 3

\* C28: resolver-level single-flight.  While no Reader is held and the
\* initialisation started by call o is suspended at its await of the chunk
\* load, a non-blocking resolve of an uncached ip selects no database, makes
\* no pass over the chunks and constructs no Reader: it waits on o's
\* initialisation.  When o resumes with the Reader, that Reader becomes the
\* one held and every call that waited is handed it; and a call that resumes
\* holding a Reader holds the one the resolver holds, and returns what that
\* Reader maps its ip to.
C28_ResolverSingleFlight ==
    [][\A o \in Callers :
          /\ (/\ geoIPReader = NULL
              /\ isInitializing
              /\ initPromise = Pending(o)
              /\ calls[o].pc = "init_await")
             => \A c \in Callers \ {o} : \A ip \in InputIPs \ {"", "::"} :
                  /\ (ip \notin CacheKeys(ipCountryCache) /\ getCountryCodeFromIPAsync(c, ip))
                     => /\ calls'[c] = Suspended("resolve_await", ip, Pending(o))
                        /\ UNCHANGED <<loaderVars, resolverVars, readers, passes,
                                       ipCountryCache>>
                  /\ (/\ calls[c] = Suspended("resolve_await", ip, Pending(o))
                      /\ calls[o].aw.kind = "reader"
                      /\ InitResume(o))
                     => /\ geoIPReader' = calls[o].aw.id
                        /\ calls'[c] = Suspended("resolve_await", ip, ReaderRes(geoIPReader'))
                        /\ calls'[o] = Suspended("resolve_await", calls[o].arg,
                                                 ReaderRes(geoIPReader'))
                        /\ UNCHANGED <<readers, passes>>
          /\ (/\ calls[o].pc = "resolve_await"
              /\ calls[o].aw.kind = "reader"
              /\ calls[o].arg \in ParsableIPs
              /\ ResolveResume(o))
             => /\ calls[o].aw.id = geoIPReader
                /\ last'.ret = CodeRes(extractCountryCode(
                                   Lookup(readers[geoIPReader], calls[o].arg),
                                   readers[geoIPReader].fmt))
      ]_vars

\* C28 witness: a chunked initialisation that loaded the Reader is suspended,
\* and a second call, for another ip, waits on it; one pass was made
C28_Witness ==
    \E o, c \in Callers :
        /\ geoIPReader = NULL
        /\ calls[o].pc = "init_await"
        /\ calls[o].aw.kind = "reader"
        /\ calls[c] = Suspended("resolve_await", "1.1.1.1", Pending(o))
        /\ calls[o].arg = "8.8.8.8"
        /\ passes = 1
        /\ Len(readers) = 1

\* C29: concurrent lookups of the same uncached key.  A non-blocking resolve
\* that was suspended on a miss and resumes with a Reader queries it and
\* writes the cache, whether or not another call for the same ip wrote the
\* entry in the meantime: it returns what the Reader maps the ip to, the
\* cache then holds exactly one entry for the ip, with that value, and the
\* entry an interleaved call for the same ip had written held that same
\* value, which is what that call returned.
C29_ConcurrentSameKey ==
    [][\A c \in Callers :
          (/\ calls[c].pc = "resolve_await"
           /\ calls[c].aw.kind = "reader"
           /\ calls[c].arg \in ParsableIPs
           /\ ResolveResume(c))
          => LET ip == calls[c].arg
                 answer == extractCountryCode(Lookup(readers[calls[c].aw.id], ip),
                                              databaseType)
             IN  /\ last'.ret = CodeRes(answer)
                 /\ Cardinality({i \in 1..Len(ipCountryCache') :
                                   ipCountryCache'[i].key = ip}) = 1
                 /\ CacheGet(ipCountryCache', ip) = answer
                 /\ ip \in CacheKeys(ipCountryCache)
                    => CacheGet(ipCountryCache, ip) = answer
      ]_vars

\* C29 witness: two non-blocking resolves of the same ip both missed the
\* cache; one has resumed, returned the country and written the entry, the
\* other is still to resume with the Reader
C29_Witness ==
    \E c \in Callers :
        /\ calls[c] = Suspended("resolve_await", "8.8.8.8", ReaderRes(geoIPReader))
        /\ geoIPReader # NULL
        /\ "8.8.8.8" \in CacheKeys(ipCountryCache)
        /\ last = Finished(CodeRes("US"), FALSE)
        /\ Len(ipCountryCache) = MAX_CACHE_SIZE

\* C30: completion.  With pending continuations scheduled fairly, every call
\* of preloadGeoIPDatabase, loadGeoIPFromChunks and getCountryCodeFromIPAsync
\* that is in flight comes to its return; so does a call that was handed the
\* promise of a preload or an initialisation in flight, whether that one
\* succeeds or fails.
C30_Completion ==
    \A c \in Callers : (calls[c].pc # "idle") ~> (calls[c].pc = "idle")

\* C30 witness: a call was handed the promise of an initialisation in flight
\* whose load has failed, and waits on it
C30_Witness ==
    \E o, c \in Callers :
        /\ calls[o].pc = "init_await"
        /\ calls[o].aw.kind = "error"
        /\ calls[c].pc = "resolve_await"
        /\ calls[c].aw = Pending(o)

\* C31: cache clear and introspection.  clearCache() leaves the cache empty
\* and everything else as it was: the Reader the resolver holds, its format,
\* the initialisation in flight, the loader's Reader and buffer, the calls
\* that are suspended.  getCacheStats() returns the number of entries the
\* cache holds as size and MAX_CACHE_SIZE as maxSize, and changes nothing.
C31_ClearAndStats ==
    [][/\ clearCache
          => /\ ipCountryCache' = <<>>
             /\ UNCHANGED <<disk, cachedReader, cachedBuffer, isPreloaded,
                            preloadPromise, geoIPReader, databaseType,
                            isInitializing, initPromise, readers, calls, passes>>
       /\ getCacheStats
          => /\ last'.ret.kind = "stats"
             /\ last'.ret.size = Cardinality(CacheKeys(ipCountryCache))
             /\ last'.ret.size = Len(ipCountryCache')
             /\ last'.ret.maxSize = MAX_CACHE_SIZE
             /\ UNCHANGED allButLast
      ]_vars

\* C31 witness: the cache was cleared while the resolver and the loader held
\* the Reader and a call was suspended; getCacheStats then reported no entry
C31_Witness ==
    /\ last.ret = StatsRes(0, MAX_CACHE_SIZE)
    /\ ipCountryCache = <<>>
    /\ geoIPReader # NULL
    /\ cachedReader = geoIPReader
    /\ \E c \in Callers : calls[c].pc = "resolve_await"

\* C32: no stale preload reference.  Whenever no preload is suspended at its
\* await, preloadPromise is null; and a preloadGeoIPDatabase() call made then,
\* with nothing preloaded and a chunk directory on disk, runs the loader on
\* it instead of returning an operation that has finished.
C32_NoStalePreloadPromise ==
    [][/\ (\A c \in Callers : calls'[c].pc # "preload_await") => preloadPromise' = None
       /\ \A c \in Callers :
             (/\ \A d \in Callers : calls[d].pc # "preload_await"
              /\ ~isPreloaded
              /\ hasChunkedDatabase(ChunksDir)
              /\ PreloadCall(c))
             => /\ calls'[c].pc = "preload_await"
                /\ calls'[c].aw = loadGeoIPFromChunks(ChunksDir).res
      ]_vars

\* C33: eviction happens only for new keys.  In every step of blocking and
\* non-blocking resolve calls other than clearCache(), the cache does not get
\* smaller, and if a key leaves the cache then the cache was full and a key
\* that was not in it has been inserted.
C33_EvictOnlyForNewKeys ==
    [][\/ clearCache
       \/ /\ Len(ipCountryCache') >= Len(ipCountryCache)
          /\ (CacheKeys(ipCountryCache) \ CacheKeys(ipCountryCache') # {})
               => /\ Len(ipCountryCache) >= MAX_CACHE_SIZE
                  /\ CacheKeys(ipCountryCache') \ CacheKeys(ipCountryCache) # {}
      ]_vars

\* C34: failures are not memoized.  A resolve call, blocking or resumed, that
\* returns null because no Provider could be obtained or because the lookup
\* threw leaves the cache as it was, and after a failed blocking call the ip is
\* still absent; the cache changes only in a step that returns the outcome of
\* a completed lookup, which is then the value stored for some ip.
C34_FailuresNotMemoized ==
    [][/\ \A ip \in InputIPs :
             (/\ getCountryCodeFromIP(ip)
              /\ last'.ret.kind = "null"
              /\ last'.ret.str # "")
             => /\ ipCountryCache' = ipCountryCache
                /\ ~CacheHas(ipCountryCache', ip)
       /\ \A c \in Callers :
             (/\ ResolveResume(c)
              /\ last'.ret.kind = "null"
              /\ last'.ret.str # "")
             => ipCountryCache' = ipCountryCache
       /\ (ipCountryCache' # ipCountryCache)
             => /\ ~(last'.ret.kind = "null" /\ last'.ret.str # "")
                /\ \E ip \in ParsableIPs :
                      /\ CacheHas(ipCountryCache', ip)
                      /\ last'.ret = CodeRes(CacheGet(ipCountryCache', ip))
      ]_vars

\* a lookup has thrown while the cache held an entry, and the entry is there
C34_Witness ==
    /\ last.ret = NullBy("lookup_error")
    /\ Len(ipCountryCache) > 0
    /\ ~CacheHas(ipCountryCache, "bad")

\* C35: the blocking and the non-blocking form agree.  From a state in which
\* the resolver holds a Provider, getCountryCodeFromIP(ip) returns r.ret and
\* leaves the state r.st, where r is ResolveIn on that state; and
\* getCountryCodeFromIPAsync(ip), run from the same state and awaited, returns
\* the same r.ret and leaves the same r.st: either at once (blank ip, cache
\* hit), or it suspends leaving the state alone and its continuation gives
\* r.ret and r.st, with the same cache contents in the same order.
C35_BlockingAndAsyncAgree ==
    [][geoIPReader # NULL =>
         /\ \A ip \in InputIPs :
               getCountryCodeFromIP(ip) =>
                 LET r == ResolveIn(BlockingState, ip)
                 IN  last' = Finished(r.ret, r.io) /\ BlockingState' = r.st
         /\ \A c \in Callers, ip \in InputIPs :
               (NoCallSuspended /\ getCountryCodeFromIPAsync(c, ip)) =>
                 LET r == ResolveIn(BlockingState, ip)
                 IN  /\ BlockingState' = BlockingState
                     /\ \/ calls' = calls /\ last' = Finished(r.ret, r.io) /\ r.st = BlockingState
                        \/ /\ calls' # calls
                           /\ last' = last
                           /\ calls'[c] = Suspended("resolve_await", ip, ReaderRes(geoIPReader))
         /\ \A c \in Callers :
               ResolveResume(c) =>
                 LET r == ResolveIn(BlockingState, calls[c].arg)
                 IN  /\ last' = Finished(r.ret, r.io)
                     /\ BlockingState' = r.st
                     /\ ipCountryCache' = r.st.cache
      ]_vars

\* a non-blocking call is suspended with the Provider the resolver holds while
\* the cache is full, so its continuation will evict
C35_Witness ==
    /\ geoIPReader # NULL
    /\ Len(ipCountryCache) = MAX_CACHE_SIZE
    /\ \E c \in Callers :
          /\ calls[c] = Suspended("resolve_await", calls[c].arg, ReaderRes(geoIPReader))
          /\ calls[c].arg \in ParsableIPs

\* C36: a successful load covers the whole buffer.  Whenever the loader holds
\* a Reader it built from the chunk directory, the running offset at the end
\* of the loop equals totalSize, numChunks is the number of chunk entries and
\* the recorded sizes sum to totalSize, so that the buffer handed to the
\* Reader is the chunks one after the other, each byte written once and none
\* dropped.
C36_LoadCoversWholeBuffer ==
    LET dir == disk.chunks
        out == Reassemble(dir)
    IN  cachedReader # NULL =>
            /\ readers[cachedReader].filled = dir.totalSize
            /\ out.offset = dir.totalSize
            /\ dir.numChunks = Len(dir.chunks)
            /\ SumOriginalSize(dir.chunks, 1, Len(dir.chunks)) = dir.totalSize
            /\ cachedBuffer = ChunksInOrder(dir, Len(dir.chunks))

\* C37: the Provider matches the requested directory.  Every call
\* loadGeoIPFromChunks(dir) that returns a Reader returns one that was built
\* from the chunks of dir, whatever directories earlier calls were given.
C37_ReaderOfRequestedDir ==
    [][\A chunksDir \in Dirs :
          (DirectLoad(chunksDir) /\ last'.ret.kind = "reader")
          => readers'[last'.ret.id].src = chunksDir
      ]_vars

\* C38: the preloaded flag agrees with the loader's state.  In every state
\* reached, after clearChunkedCache() too, isGeoIPPreloaded() is true only if
\* the loader holds a cached Reader; and isPreloaded never goes from true
\* back to false.
C38_PreloadedFlagAgrees ==
    [][/\ isGeoIPPreloaded' => cachedReader' # NULL
       /\ isPreloaded => isPreloaded'
      ]_vars

====
